---- MODULE Spec2Model ----
(***************************************************************************)
(* MewZone: registration / OTP verification / login (core/views.py,        *)
(* core/models.py, core/decorators.py, core/utils.py) and the catalogue    *)
(* with its approval flags (shop/models.py, shop/admin.py, core/views.py). *)
(*                                                                         *)
(* The specifications share the variables:                                 *)
(*   Spec         every request handler runs to completion (one action per *)
(*                view), one browser session, every register form;         *)
(*   SpecSessions the same handlers, two browser sessions, sellers         *)
(*                registering;                                             *)
(*   SpecConc     register and verify-otp requests are split at their      *)
(*                database accesses and two requests interleave;           *)
(*   SpecCatalog  shops, products, mates, the admin's approval edits and   *)
(*                the buyer-facing queries;                                *)
(*   SpecAdmin    the admin site: shops, products, mates, the approval log;*)
(*   SpecShop     create-shop split at its database accesses, update-shop, *)
(*                the admin's edits of shops and of user roles;            *)
(*   SpecReviews  product reviews and the lists of the browse page;        *)
(*   SpecPrice    prices, discounts and the cart page;                     *)
(*   SpecCart     the carts of two sessions: add, view, checkout;          *)
(*   SpecImages   product and mate images saved one after the other;       *)
(*   SpecImagesConc  two image saves split at their database statements.   *)
(***************************************************************************)
EXTENDS Integers, Sequences, FiniteSets, TLC

VARIABLES
    users,      \* table users: sequence of rows, the row's index is its id
    otps,       \* table otp_verifications: sequence of rows
    sessions,   \* session store: session key -> session data
    now,        \* timezone.now(), in minutes
    last,       \* the request handled by the last step and its outcome
    req,        \* SpecConc: the request each worker is handling
    shops,      \* table seller_shops
    products,   \* table products
    mates,      \* table mates
    shown,      \* what the last catalogue request returned
    logs,       \* table admin_approval_logs
    reviews,    \* table product_reviews
    images,     \* table product_images
    videos,     \* table product_videos
    pcats,      \* table product_categories
    mate_images \* table mate_images

authVars == <<users, otps, sessions, now, last>>
extVars == <<logs, reviews, images, videos, pcats, mate_images>>
catVars == <<shops, products, mates, shown, extVars>>
vars == <<users, otps, sessions, now, last, req, shops, products, mates, shown, extVars>>

None == "None"

(***************************************************************************)
(* Bounds of the model.                                                    *)
(***************************************************************************)
TickStep == 5       \* minutes the clock advances in one step
MaxTime == 10       \* the clock stops here

(***************************************************************************)
(* Inputs.                                                                 *)
(***************************************************************************)
Sessions == {"s1", "s2"}

\* addresses a form can carry; None is a missing field
RawEmails == {"a@x.io", "b@X.IO"}
EmailInputs == RawEmails \cup {None}
\* what a login form can carry: the stored form of an address as well
LoginEmails == RawEmails \cup {"b@x.io"}

Phones == {"017", " ", ""}
Passwords == {"pw1", "pw2"}
RoleInputs == {"SELLER", "NORMAL", "OTHER", None}

\* generate_otp draws from 000000..999999; two of its values, and a code
\* that was never issued
Codes == {"111111", "222222"}
CodeInputs == Codes \cup {"000000"}

(***************************************************************************)
(* core/models.py                                                          *)
(***************************************************************************)
\* no row: the value of an unset foreign key or of an anonymous session user
NoId == 0

\* email.rsplit("@", 1) on RawEmails: <<local part, domain part>>
rsplit(email) ==
    CASE email = "a@x.io" -> <<"a", "x.io">>
      [] email = "b@X.IO" -> <<"b", "X.IO">>
      [] email = "b@x.io" -> <<"b", "x.io">>

\* str.lower on the domain parts
lower(d) == IF d = "X.IO" THEN "x.io" ELSE d

\* BaseUserManager.normalize_email: the domain part is lowercased
normalize_email(email) ==
    LET parts == rsplit(email)
    IN CHOOSE e \in LoginEmails : rsplit(e) = <<parts[1], lower(parts[2])>>

\* User.set_password / check_password: a one-way hash of the raw password
make_password(raw) == <<"hash", raw>>
check_password(raw, encoded) == encoded = make_password(raw)

\* str.strip on Phones
strip(p) == IF p = " " THEN "" ELSE p

\* User.objects.filter(email=email): an exact match on the stored address
UsersByEmail(email) == {i \in 1..Len(users) : users[i].email = email}

\* create_user raises ValueError for a missing e-mail or phone
create_user_ValueError(email, phone) == email = None \/ phone = None \/ phone = ""

\* user.save(): the INSERT violates users.email UNIQUE, or role NOT NULL
create_user_IntegrityError(email, role) ==
    \/ UsersByEmail(normalize_email(email)) # {}
    \/ role = None

\* the row create_user stores: is_verified takes its default, False
create_user(email, password, role) ==
    [email |-> normalize_email(email),
     password |-> make_password(password),
     role |-> role,
     is_verified |-> FALSE]

\* minutes an OTP stays valid
OTP_VALID_MINUTES == 10

\* a validity window of five minutes
otp_expires_at_short(t) == t + 5

otp_expires_at(t) == t + OTP_VALID_MINUTES

\* OTPVerification.objects.create(...) in register_view
new_otp(uid, email, otp_code, t) ==
    [user |-> uid,
     email |-> email,
     otp_code |-> otp_code,
     verification_type |-> "REGISTRATION",
     created_at |-> t,
     expires_at |-> otp_expires_at(t),
     is_used |-> FALSE]

\* the lookup without expires_at__gt=now
otp_lookup_no_expiry(otp_code, t) ==
    {i \in 1..Len(otps) : otps[i].otp_code = otp_code /\ otps[i].is_used = FALSE}

\* OTPVerification.objects.filter(otp_code=.., is_used=False, expires_at__gt=now)
otp_lookup(otp_code, t) ==
    {i \in 1..Len(otps) :
        /\ otps[i].otp_code = otp_code
        /\ otps[i].is_used = FALSE
        /\ otps[i].expires_at > t}

(***************************************************************************)
(* Sessions and django.contrib.auth as the views use them.                 *)
(***************************************************************************)
EmptySession == [registration_email |-> None, user |-> NoId, cart |-> <<>>]

\* authenticate(request, email=.., password=..): the user with that e-mail
\* whose password checks, else None
authenticate(email, password) ==
    LET m == UsersByEmail(email)
    IN IF email = None \/ m = {} THEN NoId
       ELSE LET u == CHOOSE i \in m : TRUE
            IN IF check_password(password, users[u].password) THEN u ELSE NoId

\* login(request, user): a session that belongs to another user is flushed,
\* then the user id is stored in it
login(sd, uid) ==
    LET base == IF sd.user # NoId /\ sd.user # uid THEN EmptySession ELSE sd
    IN [base EXCEPT !.user = uid]

\* the view without its decorator
otp_session_not_required(sd) == TRUE

\* otp_session_required: request.session.get('registration_email') is truthy
otp_session_required(sd) == sd.registration_email # None

\* the request a step handled (its view, session and the inputs the
\* properties speak of) and the response it ended in
Respond(view, s, email, code, status) ==
    last' = [view |-> view, session |-> s, email |-> email,
             code |-> code, status |-> status]

\* responses that re-render the form with a validation message
ValidationErrors == {"passwords_mismatch", "email_exists", "phone_required"}

\* exceptions no handler catches: the request ends in a server error
UnhandledErrors ==
    {"ValueError", "IntegrityError", "MultipleObjectsReturned", "SMTPException"}

(***************************************************************************)
(* core/views.py: handlers that run to completion.                         *)
(***************************************************************************)
login_view(s, email, password) ==
    LET user == authenticate(email, password)
    IN /\ IF user # NoId
          THEN /\ sessions' = [sessions EXCEPT ![s] = login(@, user)]
               /\ Respond("login", s, email, None, "logged_in")
          ELSE /\ UNCHANGED sessions
               /\ Respond("login", s, email, None, "invalid_credentials")
       /\ UNCHANGED <<users, otps, now, req>>
       /\ UNCHANGED catVars

\* logout(request) flushes the session
logout_view(s) ==
    /\ sessions' = [sessions EXCEPT ![s] = EmptySession]
    /\ Respond("logout", s, None, None, "logged_out")
    /\ UNCHANGED <<users, otps, now, req>>
    /\ UNCHANGED catVars

\* the check without strip()
phone_is_empty(phone) == phone = None \/ phone = ""

\* not phone or len(phone.strip()) == 0
phone_is_blank(phone) == phone = None \/ phone = "" \/ strip(phone) = ""

\* register_view up to create_user: the response that ends the request
\* there, or None when the request goes on to the INSERT
register_rejects(email, phone, password1, password2) ==
    IF password1 # password2 THEN "passwords_mismatch"
    ELSE IF UsersByEmail(email) # {} THEN "email_exists"
    ELSE IF phone_is_blank(phone) THEN "phone_required"
    ELSE IF create_user_ValueError(email, phone) THEN "ValueError"
    ELSE None

\* the marker stored before the mail is sent
register_marker_first(sd, email, mail_ok) == [sd EXCEPT !.registration_email = email]

\* register_view, lines 88-90: send_otp_email, then
\* request.session['registration_email'] = email, which an exception of
\* send_mail skips
register_marker(sd, email, mail_ok) ==
    IF mail_ok THEN [sd EXCEPT !.registration_email = email] ELSE sd

\* role == 'SELLER'
is_seller_role(role) == role = "SELLER"

register_view(s, email, phone, password1, password2, role, otp_code, mail_ok) ==
    LET rejected == register_rejects(email, phone, password1, password2)
        uid == Len(users) + 1
    IN
    /\ UNCHANGED <<now, req>>
    /\ UNCHANGED catVars
    /\ IF rejected # None
       THEN /\ Respond("register", s, email, None, rejected)
            /\ UNCHANGED <<users, otps, sessions>>
       ELSE IF create_user_IntegrityError(email, role)
       THEN /\ Respond("register", s, email, None, "IntegrityError")
            /\ UNCHANGED <<users, otps, sessions>>
       ELSE IF is_seller_role(role)
       THEN /\ users' = Append(users, create_user(email, password1, role))
            /\ otps' = Append(otps, new_otp(uid, email, otp_code, now))
            \* when send_mail raises, the rows written so far stay
            /\ sessions' = [sessions EXCEPT ![s] = register_marker(@, email, mail_ok)]
            /\ Respond("register", s, email, None,
                       IF mail_ok THEN "otp_sent" ELSE "SMTPException")
       ELSE /\ users' = Append(users,
                   [create_user(email, password1, role) EXCEPT !.is_verified = TRUE])
            /\ UNCHANGED <<otps, sessions>>
            /\ Respond("register", s, email, None, "registered")

verify_otp_view(s, otp_code) ==
    LET m == otp_lookup(otp_code, now)
    IN
    /\ UNCHANGED <<now, req>>
    /\ UNCHANGED catVars
    /\ IF ~otp_session_required(sessions[s])
       THEN /\ Respond("verify_otp", s, None, otp_code, "redirect_register")
            /\ UNCHANGED <<users, otps, sessions>>
       ELSE IF m = {}
       THEN \* OTPVerification.DoesNotExist
            /\ Respond("verify_otp", s, None, otp_code, "invalid_otp")
            /\ UNCHANGED <<users, otps, sessions>>
       ELSE IF Cardinality(m) > 1
       THEN \* .get() raises MultipleObjectsReturned, which nothing catches
            /\ Respond("verify_otp", s, None, otp_code, "MultipleObjectsReturned")
            /\ UNCHANGED <<users, otps, sessions>>
       ELSE LET i == CHOOSE j \in m : TRUE
                uid == otps[i].user
            IN /\ otps' = [otps EXCEPT ![i].is_used = TRUE]
               /\ users' = [users EXCEPT ![uid].is_verified = TRUE]
               /\ sessions' = [sessions EXCEPT
                      ![s] = [login(@, uid) EXCEPT !.registration_email = None]]
               /\ Respond("verify_otp", s, None, otp_code, "verified")

Tick ==
    /\ now + TickStep <= MaxTime
    /\ now' = now + TickStep
    /\ Respond("tick", None, None, None, None)
    /\ UNCHANGED <<users, otps, sessions, req>>
    /\ UNCHANGED catVars

(***************************************************************************)
(* Requests, one at a time.                                                *)
(***************************************************************************)
Workers == {1, 2}

IdleRequest ==
    [pc |-> "idle", view |-> None, session |-> None, sd |-> EmptySession,
     email |-> None, password |-> None, role |-> None, code |-> None,
     free |-> FALSE, uid |-> NoId, otp |-> NoId, status |-> None,
     shop_name |-> None, listing |-> NoId, is_primary |-> FALSE]

InitAuth ==
    /\ users = <<>>
    /\ otps = <<>>
    /\ sessions = [s \in Sessions |-> EmptySession]
    /\ now = 0
    /\ last = [view |-> None, session |-> None, email |-> None,
              code |-> None, status |-> None]
    /\ req = [w \in Workers |-> IdleRequest]

\* no catalogue request was answered yet
NothingShown ==
    [view |-> None, status |-> None, products |-> {}, shops |-> {}, mates |-> {},
     errors |-> <<>>, best_sellers |-> <<>>, items |-> <<>>, total |-> 0]

InitCatalogEmpty ==
    /\ shops = <<>>
    /\ products = <<>>
    /\ mates = <<>>
    /\ shown = NothingShown
    /\ logs = <<>>
    /\ reviews = <<>>
    /\ images = <<>>
    /\ videos = <<>>
    /\ pcats = <<>>
    /\ mate_images = <<>>

Init ==
    /\ InitAuth
    /\ InitCatalogEmpty

\* register forms: every combination of the fields the validation reads,
\* every role, and for the well-formed seller forms every code and mail outcome
RegisterForms ==
    [email : EmailInputs, phone : Phones, password1 : {"pw1"}, password2 : Passwords,
     role : {"SELLER"}, otp_code : {"111111"}, mail_ok : {TRUE}]
    \cup
    [email : RawEmails, phone : {"017"}, password1 : {"pw1"}, password2 : {"pw1"},
     role : RoleInputs, otp_code : {"111111"}, mail_ok : {TRUE}]
    \cup
    [email : RawEmails, phone : {"017"}, password1 : {"pw1"}, password2 : {"pw1"},
     role : {"SELLER"}, otp_code : Codes, mail_ok : BOOLEAN]

\* the well-formed seller forms whose mail is delivered
SellerForms ==
    [email : RawEmails, phone : {"017"}, password1 : {"pw1"}, password2 : {"pw1"},
     role : {"SELLER"}, otp_code : Codes, mail_ok : {TRUE}]

Submit(s, f) ==
    register_view(s, f.email, f.phone, f.password1, f.password2, f.role,
                  f.otp_code, f.mail_ok)

Login(SS) == \E s \in SS, e \in LoginEmails, p \in Passwords : login_view(s, e, p)

Logout(SS) == \E s \in SS : logout_view(s)

Register(SS, FF) == \E s \in SS, f \in FF : Submit(s, f)

VerifyOtp(SS) == \E s \in SS, c \in CodeInputs : verify_otp_view(s, c)

\* Spec: one browser session, every form
OneSession == {"s1"}

Next ==
    \/ Login(OneSession)
    \/ Logout(OneSession)
    \/ Register(OneSession, RegisterForms)
    \/ VerifyOtp(OneSession)
    \/ Tick

Spec == Init /\ [][Next]_vars

\* SpecSessions: two browser sessions, sellers registering
NextSessions ==
    \/ Login(Sessions)
    \/ Logout(Sessions)
    \/ Register(Sessions, SellerForms)
    \/ VerifyOtp(Sessions)
    \/ Tick

SpecSessions == Init /\ [][NextSessions]_vars

(***************************************************************************)
(* SpecConc: two requests at a time.  register_view and verify_otp_view    *)
(* are cut at their database accesses; no transaction spans them           *)
(* (core/views.py uses none), so another request's accesses may fall       *)
(* between any two of them.                                                *)
(***************************************************************************)
ConcForms ==
    [email : RawEmails, phone : {"017"}, password1 : {"pw1"}, password2 : {"pw1"},
     role : {"SELLER", "NORMAL"}, otp_code : {"111111"}, mail_ok : {TRUE}]

ConcCodes == {"111111"}

Accepting(w) == req[w].pc \in {"idle", "done"}

Finish(w, status) == req' = [req EXCEPT ![w].pc = "done", ![w].status = status]

\* register_view, lines 49-67: the form is read, the passwords compared,
\* User.objects.filter(email=email).exists() evaluated, the phone checked
register_start(w, s, f) ==
    LET rejected == register_rejects(f.email, f.phone, f.password1, f.password2)
        r == [IdleRequest EXCEPT
                 !.view = "register", !.session = s, !.email = f.email,
                 !.password = f.password1, !.role = f.role, !.code = f.otp_code,
                 !.free = UsersByEmail(normalize_email(f.email)) = {}]
    IN /\ Accepting(w)
       /\ req' = [req EXCEPT ![w] =
                     IF rejected # None
                     THEN [r EXCEPT !.pc = "done", !.status = rejected]
                     ELSE [r EXCEPT !.pc = "r_insert"]]
       /\ UNCHANGED authVars
       /\ UNCHANGED catVars

\* register_view, lines 69-76: create_user's INSERT
register_insert(w) ==
    LET r == req[w]
    IN /\ r.pc = "r_insert"
       /\ IF create_user_IntegrityError(r.email, r.role)
          THEN /\ Finish(w, "IntegrityError")
               /\ UNCHANGED users
          ELSE /\ users' = Append(users, create_user(r.email, r.password, r.role))
               /\ req' = [req EXCEPT
                      ![w].uid = Len(users) + 1,
                      ![w].pc = IF is_seller_role(r.role) THEN "r_otp" ELSE "r_verified"]
       /\ UNCHANGED <<otps, sessions, now, last>>
       /\ UNCHANGED catVars

\* register_view, lines 78-92: the OTP row, the mail, the session marker
register_otp(w) ==
    LET r == req[w]
    IN /\ r.pc = "r_otp"
       /\ otps' = Append(otps, new_otp(r.uid, r.email, r.code, now))
       /\ sessions' = [sessions EXCEPT ![r.session].registration_email = r.email]
       /\ Finish(w, "otp_sent")
       /\ UNCHANGED <<users, now, last>>
       /\ UNCHANGED catVars

\* register_view, lines 93-98: user.is_verified = True; user.save()
register_verified(w) ==
    LET r == req[w]
    IN /\ r.pc = "r_verified"
       /\ users' = [users EXCEPT ![r.uid].is_verified = TRUE]
       /\ Finish(w, "registered")
       /\ UNCHANGED <<otps, sessions, now, last>>
       /\ UNCHANGED catVars

\* otp_session_required reads the session; the request keeps what it read
verify_start(w, s, otp_code) ==
    LET r == [IdleRequest EXCEPT
                 !.view = "verify_otp", !.session = s, !.sd = sessions[s],
                 !.code = otp_code]
    IN /\ Accepting(w)
       /\ req' = [req EXCEPT ![w] =
                     IF otp_session_required(sessions[s])
                     THEN [r EXCEPT !.pc = "v_get"]
                     ELSE [r EXCEPT !.pc = "done", !.status = "redirect_register"]]
       /\ UNCHANGED authVars
       /\ UNCHANGED catVars

\* verify_otp_view, lines 110-114: OTPVerification.objects.get(...)
verify_get(w) ==
    LET r == req[w]
        m == otp_lookup(r.code, now)
    IN /\ r.pc = "v_get"
       /\ IF m = {} THEN Finish(w, "invalid_otp")
          ELSE IF Cardinality(m) > 1 THEN Finish(w, "MultipleObjectsReturned")
          ELSE req' = [req EXCEPT ![w].otp = CHOOSE j \in m : TRUE,
                                  ![w].pc = "v_user"]
       /\ UNCHANGED authVars
       /\ UNCHANGED catVars

\* verify_otp_view, lines 117-118: the user is fetched, is_verified set, saved
verify_save_user(w) ==
    LET r == req[w]
        uid == otps[r.otp].user
    IN /\ r.pc = "v_user"
       /\ users' = [users EXCEPT ![uid].is_verified = TRUE]
       /\ req' = [req EXCEPT ![w].uid = uid, ![w].pc = "v_otp"]
       /\ UNCHANGED <<otps, sessions, now, last>>
       /\ UNCHANGED catVars

\* verify_otp_view, lines 116 and 119-128: the row read at the get is saved
\* with is_used = True, the user logged in, the marker popped, and the
\* session the request read at its start written back
verify_save_otp(w) ==
    LET r == req[w]
    IN /\ r.pc = "v_otp"
       /\ otps' = [otps EXCEPT ![r.otp].is_used = TRUE]
       /\ sessions' = [sessions EXCEPT ![r.session] =
                          [login(r.sd, r.uid) EXCEPT !.registration_email = None]]
       /\ Finish(w, "verified")
       /\ UNCHANGED <<users, now, last>>
       /\ UNCHANGED catVars

RegisterStart == \E w \in Workers, s \in Sessions, f \in ConcForms : register_start(w, s, f)

RegisterInsert == \E w \in Workers : register_insert(w)

RegisterOtp == \E w \in Workers : register_otp(w)

RegisterVerified == \E w \in Workers : register_verified(w)

VerifyStart == \E w \in Workers, s \in Sessions, c \in ConcCodes : verify_start(w, s, c)

VerifyGet == \E w \in Workers : verify_get(w)

VerifySaveUser == \E w \in Workers : verify_save_user(w)

VerifySaveOtp == \E w \in Workers : verify_save_otp(w)

NextConc ==
    \/ RegisterStart
    \/ RegisterInsert
    \/ RegisterOtp
    \/ RegisterVerified
    \/ VerifyStart
    \/ VerifyGet
    \/ VerifySaveUser
    \/ VerifySaveOtp

SpecConc == Init /\ [][NextConc]_vars

(***************************************************************************)
(* shop/models.py, shop/admin.py and the catalogue views of core/views.py. *)
(* A row's index in its table stands for its UUID primary key; rows are    *)
(* never deleted, so the order of the indices is the order of created_at.  *)
(***************************************************************************)
\* approved_at = NULL
NoTime == -1

MaxProducts == 2    \* rows the products table may hold
MaxMates == 1       \* rows the mates table may hold
MaxCartQty == 2     \* total quantity a cart may hold

\* the breeds table: Breed.id (a UUID) -> row
BreedTable ==
    [b \in {"b1", "b2"} |->
        IF b = "b1" THEN [name |-> "Persian", is_active |-> TRUE]
                    ELSE [name |-> "Siamese", is_active |-> FALSE]]

\* the categories table: Category.id (a UUID) -> row
CategoryTable ==
    [c \in {"c1", "c2"} |->
        IF c = "c1" THEN [name |-> "Kittens", is_active |-> TRUE]
                    ELSE [name |-> "Seniors", is_active |-> FALSE]]

\* UUIDField.to_python accepts the value; "b9" is a UUID of no row
is_uuid(x) == x \in {"b1", "b2", "b9"}

\* Decimal(s): the value, counted in 1/10000 (a price has two decimal
\* places, a price times a discount factor four), or InvalidOperation
Decimal(s) ==
    CASE s = "0" -> [ok |-> TRUE, value |-> 0]
      [] s = "0.01" -> [ok |-> TRUE, value |-> 100]
      [] s = "0.99" -> [ok |-> TRUE, value |-> 9900]
      [] s = "1" -> [ok |-> TRUE, value |-> 10000]
      [] s = "80" -> [ok |-> TRUE, value |-> 800000]
      [] s = "100" -> [ok |-> TRUE, value |-> 1000000]
      [] s = "100.00" -> [ok |-> TRUE, value |-> 1000000]
      [] s = "120" -> [ok |-> TRUE, value |-> 1200000]
      [] s = "-1" -> [ok |-> TRUE, value |-> 0 - 10000]
      [] OTHER -> [ok |-> FALSE, value |-> 0]

MaxInt == 101       \* the largest number a form field spells

\* int(s), or ValueError
int(s) ==
    CASE s = "0" -> [ok |-> TRUE, value |-> 0]
      [] s = "1" -> [ok |-> TRUE, value |-> 1]
      [] s = "2" -> [ok |-> TRUE, value |-> 2]
      [] s = "101" -> [ok |-> TRUE, value |-> 101]
      [] s = "-1" -> [ok |-> TRUE, value |-> 0 - 1]
      [] \E n \in 0..MaxInt : ToString(n) = s ->
            [ok |-> TRUE, value |-> CHOOSE n \in 0..MaxInt : ToString(n) = s]
      [] OTHER -> [ok |-> FALSE, value |-> 0]

\* datetime.strptime(s, '%Y-%m-%d') succeeds
strptime_ok(s) == s = "2024-01-31"

upper(g) ==
    CASE g = "male" -> "MALE"
      [] g = "female" -> "FEMALE"
      [] OTHER -> g

\* name__icontains: needle occurs in name, letter case ignored
icontains(name, needle) ==
    \/ needle = ""
    \/ <<name, needle>> \in {<<"Tom", "om">>, <<"Tom", "TOM">>, <<"Kitty", "kit">>}

Max(a, b) == IF a > b THEN a ELSE b

Min(a, b) == IF a < b THEN a ELSE b

\* order_by('-created_at') of a set of row ids
Desc(S) ==
    [k \in 1..Cardinality(S) |->
        CHOOSE x \in S : Cardinality({y \in S : y > x}) = k - 1]

\* the Python slice seq[a:b]
Slice(seq, a, b) == SubSeq(seq, a + 1, Min(b, Len(seq)))

Range(seq) == {seq[k] : k \in DOMAIN seq}

\* request.user.is_authenticated and request.user.role == 'SELLER'
seller_required(sd) ==
    IF sd.user = NoId THEN "redirect_login"
    ELSE IF users[sd.user].role # "SELLER" THEN "redirect_home"
    ELSE None

\* request.user.seller_shop (a OneToOneField): the seller's shop, or NoId
seller_shop(uid) ==
    IF \E i \in 1..Len(shops) : shops[i].seller = uid
    THEN CHOOSE i \in 1..Len(shops) : shops[i].seller = uid
    ELSE NoId

no_shop_required(sd) == IF seller_shop(sd.user) # NoId THEN "redirect_update_shop" ELSE None

has_shop_required(sd) == IF seller_shop(sd.user) = NoId THEN "redirect_create_shop" ELSE None

\* product.product_reviews: the rows of product_reviews of product i
product_reviews(i) == {k \in 1..Len(reviews) : reviews[k].product = i}

\* product.product_reviews.filter(is_approved=True)
approved_reviews(i) == {k \in product_reviews(i) : reviews[k].is_approved = TRUE}

RECURSIVE Sum(_)
Sum(S) ==
    IF S = {} THEN 0
    ELSE LET k == CHOOSE k \in S : TRUE IN reviews[k].rating + Sum(S \ {k})

\* Avg('...rating') over the review rows S: the fraction sum / n, and NULL
\* (n = 0) over no row
Avg(S) == [sum |-> Sum(S), n |-> Cardinality(S)]

\* Count(...) over the review rows S
Count(S) == Cardinality(S)

\* the annotation of browse and filter: over the product_reviews join, with
\* no filter on the reviews
annotate(i) ==
    [avg_rating |-> Avg(product_reviews(i)), review_count |-> Count(product_reviews(i))]

\* the rows a response carries, as they are read
ProductRow(i) ==
    LET a == annotate(i)
    IN [id |-> i, is_approved |-> products[i].is_approved,
        shop_approved |-> shops[products[i].shop].is_approved,
        avg_rating |-> a.avg_rating, review_count |-> a.review_count]

ShopRow(i) == [id |-> i, is_approved |-> shops[i].is_approved]

MateRow(i) == [id |-> i, is_approved |-> mates[i].is_approved]

\* what a request returns: the rows rendered and, for the views that have
\* them, the error messages, the best-sellers list and the cart lines
Response(view, status, ps, ss, ms) ==
    [view |-> view, status |-> status,
     products |-> {ProductRow(i) : i \in ps},
     shops |-> {ShopRow(i) : i \in ss},
     mates |-> {MateRow(i) : i \in ms},
     errors |-> <<>>, best_sellers |-> <<>>, items |-> <<>>, total |-> 0]

Shown(view, status, ps, ss, ms) == shown' = Response(view, status, ps, ss, ms)

ShopNames == {"Cat House"}

create_shop_view(s, shop_name) ==
    LET sd == sessions[s]
        refused == IF seller_required(sd) # None THEN seller_required(sd)
                   ELSE no_shop_required(sd)
    IN /\ IF refused # None
          THEN /\ UNCHANGED shops
               /\ Shown("create_shop", refused, {}, {}, {})
          ELSE IF shop_name = None
          THEN \* request.POST.get('shop_name') is None: the column is NOT NULL
               /\ UNCHANGED shops
               /\ Shown("create_shop", "IntegrityError", {}, {}, {})
          ELSE /\ shops' = Append(shops,
                      [seller |-> sd.user, shop_name |-> shop_name,
                       is_approved |-> FALSE, approved_at |-> NoTime])
               /\ Shown("create_shop", "created", {}, {}, {})
       /\ UNCHANGED <<products, mates>>
       /\ UNCHANGED <<authVars, req, extVars>>

\* update_shop_view with a save that writes the model's defaults
update_shop_view_resets(s, shop_name) ==
    LET sd == sessions[s]
        refused == IF seller_required(sd) # None THEN seller_required(sd)
                   ELSE has_shop_required(sd)
    IN /\ IF refused # None
          THEN /\ UNCHANGED shops
               /\ Shown("update_shop", refused, {}, {}, {})
          ELSE /\ shops' = [shops EXCEPT ![seller_shop(sd.user)] =
                      [@ EXCEPT !.shop_name = shop_name, !.is_approved = FALSE]]
               /\ Shown("update_shop", "updated", {}, {}, {})
       /\ UNCHANGED <<products, mates>>
       /\ UNCHANGED <<authVars, req, extVars>>

update_shop_view(s, shop_name) ==
    LET sd == sessions[s]
        refused == IF seller_required(sd) # None THEN seller_required(sd)
                   ELSE has_shop_required(sd)
    IN /\ IF refused # None
          THEN /\ UNCHANGED shops
               /\ Shown("update_shop", refused, {}, {}, {})
          ELSE /\ shops' = [shops EXCEPT ![seller_shop(sd.user)].shop_name = shop_name]
               /\ Shown("update_shop", "updated", {}, {}, {})
       /\ UNCHANGED <<products, mates>>
       /\ UNCHANGED <<authVars, req, extVars>>

\* the checks of add_product_view, in the order they run: the list errors,
\* one message appended by each failing check
product_errors(f) ==
    LET price == Decimal(f.price)
        discount == int(f.discount_percentage)
    IN (IF strip(f.name) = "" THEN <<"name">> ELSE <<>>)
       \o (IF f.breed \notin DOMAIN BreedTable THEN <<"breed">> ELSE <<>>)
       \o (IF ~strptime_ok(f.date_of_birth) THEN <<"date_of_birth">> ELSE <<>>)
       \o (IF ~price.ok \/ price.value < 0 THEN <<"price">> ELSE <<>>)
       \o (IF ~discount.ok \/ discount.value < 0 \/ discount.value > 100
             THEN <<"discount">> ELSE <<>>)
       \o (IF strip(f.description) = "" THEN <<"description">> ELSE <<>>)

\* Product.objects.create(...): is_approved takes the field's default
new_product(shop, f) ==
    [shop |-> shop, name |-> strip(f.name), breed |-> f.breed, gender |-> f.gender,
     color |-> f.color, price |-> Decimal(f.price).value,
     discount_percentage |-> int(f.discount_percentage).value,
     is_approved |-> FALSE]

\* a ProductImage.save that stores the row and leaves the other rows alone
ProductImage_save_keep(imgs, row) == Append(imgs, row)

\* ProductImage.save: a primary image takes the flag from the product's
\* other images, then the row is stored
ProductImage_save(imgs, row) ==
    Append([k \in DOMAIN imgs |->
               IF row.is_primary /\ imgs[k].product = row.product
               THEN [imgs[k] EXCEPT !.is_primary = FALSE] ELSE imgs[k]],
           row)

\* ProductImage.save of the stored row k, edited to row
ProductImage_resave(imgs, k, row) ==
    [j \in DOMAIN imgs |->
        IF j = k THEN row
        ELSE IF row.is_primary /\ imgs[j].product = row.product
        THEN [imgs[j] EXCEPT !.is_primary = FALSE] ELSE imgs[j]]

\* ProductImageAdmin: the add form
admin_add_image(product, is_primary) ==
    /\ images' = ProductImage_save(images, [product |-> product, is_primary |-> is_primary])
    /\ Shown("admin_image", "saved", {}, {}, {})
    /\ UNCHANGED <<shops, products, mates>>
    /\ UNCHANGED <<authVars, req, logs, reviews, videos, pcats, mate_images>>

\* ProductImageAdmin: the change form, its fields product and is_primary
admin_change_image(k, product, is_primary) ==
    /\ images' = ProductImage_resave(images, k, [product |-> product, is_primary |-> is_primary])
    /\ Shown("admin_image", "saved", {}, {}, {})
    /\ UNCHANGED <<shops, products, mates>>
    /\ UNCHANGED <<authVars, req, logs, reviews, videos, pcats, mate_images>>

MateImageLimit == 5

\* MateImage(mate=.., is_primary=..): the primary key takes the field's
\* default, uuid.uuid4(), when the instance is constructed
MateImage(mate, is_primary) == [pk |-> "uuid4", mate |-> mate, is_primary |-> is_primary]

\* MateImage.save of obj, a new instance (k = NoId) or the stored row k:
\* the primaries of the mate are cleared, the count is checked when the
\* instance has no primary key, the row is written; the admin's view runs
\* in a transaction, so the ValidationError undoes the clearing
MateImage_save(imgs, k, obj) ==
    LET row == [mate |-> obj.mate, is_primary |-> obj.is_primary]
        cleared == [j \in DOMAIN imgs |->
                      IF obj.is_primary /\ imgs[j].mate = obj.mate
                      THEN [imgs[j] EXCEPT !.is_primary = FALSE] ELSE imgs[j]]
        current_count == Cardinality({j \in DOMAIN imgs : imgs[j].mate = obj.mate})
    IN IF obj.pk = None /\ current_count >= MateImageLimit
       THEN [status |-> "ValidationError", rows |-> imgs]
       ELSE [status |-> "saved",
             rows |-> IF k = NoId THEN Append(cleared, row) ELSE [cleared EXCEPT ![k] = row]]

\* MateImageAdmin: the add form
admin_add_mate_image(mate, is_primary) ==
    /\ \E r \in {MateImage_save(mate_images, NoId, MateImage(mate, is_primary))} :
          /\ mate_images' = r.rows
          /\ Shown("admin_mate_image", r.status, {}, {}, {})
    /\ UNCHANGED <<shops, products, mates>>
    /\ UNCHANGED <<authVars, req, logs, reviews, images, videos, pcats>>

\* MateImageAdmin: the change form, its fields mate and is_primary
admin_change_mate_image(k, mate, is_primary) ==
    /\ \E r \in {MateImage_save(mate_images, k, MateImage(mate, is_primary))} :
          /\ mate_images' = r.rows
          /\ Shown("admin_mate_image", r.status, {}, {}, {})
    /\ UNCHANGED <<shops, products, mates>>
    /\ UNCHANGED <<authVars, req, logs, reviews, images, videos, pcats>>

\* for index, image_file in enumerate(images[:3]), from index k on: n files
\* were uploaded
RECURSIVE create_images(_, _, _, _)
create_images(imgs, product, k, n) ==
    IF k >= Min(n, 3) THEN imgs
    ELSE create_images(ProductImage_save(imgs, [product |-> product, is_primary |-> k = 0]),
                       product, k + 1, n)

\* video_file.size > max_video_size
video_too_large(v) == v = "big.mp4"

\* video_file.name.split('.')[-1].lower()
file_extension(v) ==
    CASE v \in {"cat.mp4", "big.mp4"} -> "mp4"
      [] v = "cat.exe" -> "exe"
      [] OTHER -> ""

allowed_extensions == {"mp4", "mov", "avi", "webm"}

\* for video_file in videos[:max_videos]: the files that are stored
stored_videos(vs) ==
    SelectSeq(Slice(vs, 0, 2),
              LAMBDA v : ~video_too_large(v) /\ file_extension(v) \in allowed_extensions)

\* Category.objects.get(id=category_id, is_active=True) finds a row
active_category(c) == c \in DOMAIN CategoryTable /\ CategoryTable[c].is_active

\* ProductCategory.objects.get_or_create for the selected active categories,
\* in the order of their ids
RECURSIVE create_categories(_, _, _)
create_categories(rows, product, cs) ==
    IF cs = {} THEN rows
    ELSE LET c == CHOOSE c \in cs : TRUE
             row == [product |-> product, category |-> c]
         IN create_categories(
                IF active_category(c) /\ row \notin Range(rows) THEN Append(rows, row) ELSE rows,
                product, cs \ {c})

add_product_view(s, f) ==
    LET sd == sessions[s]
        refused == IF seller_required(sd) # None THEN seller_required(sd)
                   ELSE has_shop_required(sd)
        product == Len(products) + 1
        stored == stored_videos(f.videos)
    IN /\ IF refused # None
          THEN /\ UNCHANGED <<products, images, videos, pcats>>
               /\ Shown("add_product", refused, {}, {}, {})
          ELSE IF ~is_uuid(f.breed)
          THEN \* Breed.objects.get(id=...) raises ValidationError, not caught
               /\ UNCHANGED <<products, images, videos, pcats>>
               /\ Shown("add_product", "ValidationError", {}, {}, {})
          ELSE IF product_errors(f) # <<>>
          THEN /\ UNCHANGED <<products, images, videos, pcats>>
               /\ shown' = [Response("add_product", "errors", {}, {}, {})
                               EXCEPT !.errors = product_errors(f)]
          ELSE /\ products' = Append(products, new_product(seller_shop(sd.user), f))
               /\ images' = create_images(images, product, 0, f.images)
               /\ videos' = videos \o [k \in DOMAIN stored |-> [product |-> product, video |-> stored[k]]]
               /\ pcats' = create_categories(pcats, product, f.categories)
               /\ Shown("add_product", "submitted", {}, {}, {})
       /\ UNCHANGED <<shops, mates>>
       /\ UNCHANGED <<authVars, req, logs, reviews, mate_images>>

\* SellerShopAdmin: the change form saves is_approved; approved_at is read-only
admin_save_shop(i, is_approved) ==
    /\ shops' = [shops EXCEPT ![i].is_approved = is_approved]
    /\ Shown("admin_shop", "saved", {}, {}, {})
    /\ UNCHANGED <<products, mates>>
    /\ UNCHANGED <<authVars, req, extVars>>

\* ProductAdmin: the change form saves is_approved
admin_save_product(i, is_approved) ==
    /\ products' = [products EXCEPT ![i].is_approved = is_approved]
    /\ Shown("admin_product", "saved", {}, {}, {})
    /\ UNCHANGED <<shops, mates>>
    /\ UNCHANGED <<authVars, req, extVars>>

\* save_model without its elif branch
save_model_stamp_only(obj) ==
    IF obj.is_approved /\ obj.approved_at = NoTime THEN [obj EXCEPT !.approved_at = now]
    ELSE obj

\* MateAdmin.save_model
save_model(obj) ==
    IF obj.is_approved /\ obj.approved_at = NoTime THEN [obj EXCEPT !.approved_at = now]
    ELSE IF ~obj.is_approved /\ obj.approved_at # NoTime THEN [obj EXCEPT !.approved_at = NoTime]
    ELSE obj

\* MateAdmin: the add form, with its fields is_approved and approved_at
admin_add_mate(shop, is_approved, approved_at) ==
    /\ mates' = Append(mates,
           save_model([shop |-> shop, is_approved |-> is_approved,
                       approved_at |-> approved_at]))
    /\ Shown("admin_mate", "saved", {}, {}, {})
    /\ UNCHANGED <<shops, products>>
    /\ UNCHANGED <<authVars, req, extVars>>

\* MateAdmin: the change form, with its fields is_approved and approved_at
admin_change_mate(i, is_approved, approved_at) ==
    /\ mates' = [mates EXCEPT ![i] =
           save_model([@ EXCEPT !.is_approved = is_approved, !.approved_at = approved_at])]
    /\ Shown("admin_mate", "saved", {}, {}, {})
    /\ UNCHANGED <<shops, products>>
    /\ UNCHANGED <<authVars, req, extVars>>

\* AdminApprovalLog.ACTION_CHOICES
ACTION_CHOICES == {"APPROVED", "REJECTED"}

\* AdminApprovalLogAdmin is a ModelAdmin with no permission override: its
\* add form stores the row the admin types in
admin_add_log(content_type, object_id, admin_user, action) ==
    /\ logs' = Append(logs, [content_type |-> content_type, object_id |-> object_id,
                             admin_user |-> admin_user, action |-> action])
    /\ Shown("admin_log", "saved", {}, {}, {})
    /\ UNCHANGED <<shops, products, mates>>
    /\ UNCHANGED <<authVars, req, reviews, images, videos, pcats, mate_images>>

\* AdminApprovalLogAdmin: the change form
admin_change_log(k, action) ==
    /\ logs' = [logs EXCEPT ![k].action = action]
    /\ Shown("admin_log", "saved", {}, {}, {})
    /\ UNCHANGED <<shops, products, mates>>
    /\ UNCHANGED <<authVars, req, reviews, images, videos, pcats, mate_images>>

\* AdminApprovalLogAdmin: the delete view
admin_delete_log(k) ==
    /\ logs' = SubSeq(logs, 1, k - 1) \o SubSeq(logs, k + 1, Len(logs))
    /\ Shown("admin_log", "deleted", {}, {}, {})
    /\ UNCHANGED <<shops, products, mates>>
    /\ UNCHANGED <<authVars, req, reviews, images, videos, pcats, mate_images>>

\* Product.objects with no approval filter
Product_all == 1..Len(products)

\* the products table with no filter on is_approved
Product_any_approval == 1..Len(products)

\* Product.objects.filter(is_approved=True)
Product_is_approved == {i \in 1..Len(products) : products[i].is_approved = TRUE}

\* Mate.objects.filter(is_approved=True)
Mate_is_approved == {i \in 1..Len(mates) : mates[i].is_approved = TRUE}

\* SellerShop.objects.filter(is_approved=True)
SellerShop_is_approved == {i \in 1..Len(shops) : shops[i].is_approved = TRUE}

ReadOnly ==
    /\ UNCHANGED <<shops, products, mates>>
    /\ UNCHANGED <<authVars, req, extVars>>

\* ProductReviewAdmin: the add form; (product, user) is unique_together and
\* the form refuses a second review of the pair
admin_add_review(product, user, rating, is_approved) ==
    /\ IF \E k \in 1..Len(reviews) : reviews[k].product = product /\ reviews[k].user = user
       THEN /\ UNCHANGED reviews
            /\ Shown("admin_review", "already_exists", {}, {}, {})
       ELSE /\ reviews' = Append(reviews, [product |-> product, user |-> user,
                                           rating |-> rating, is_approved |-> is_approved])
            /\ Shown("admin_review", "saved", {}, {}, {})
    /\ UNCHANGED <<shops, products, mates>>
    /\ UNCHANGED <<authVars, req, logs, images, videos, pcats, mate_images>>

\* ProductReviewAdmin: the change form
admin_change_review(k, rating, is_approved) ==
    /\ reviews' = [reviews EXCEPT ![k].rating = rating, ![k].is_approved = is_approved]
    /\ Shown("admin_review", "saved", {}, {}, {})
    /\ UNCHANGED <<shops, products, mates>>
    /\ UNCHANGED <<authVars, req, logs, images, videos, pcats, mate_images>>

\* ProductReviewAdmin: the delete view
admin_delete_review(k) ==
    /\ reviews' = SubSeq(reviews, 1, k - 1) \o SubSeq(reviews, k + 1, Len(reviews))
    /\ Shown("admin_review", "deleted", {}, {}, {})
    /\ UNCHANGED <<shops, products, mates>>
    /\ UNCHANGED <<authVars, req, logs, images, videos, pcats, mate_images>>

\* the place of a NULL avg_rating in ORDER BY avg_rating DESC: that of the
\* rating 0
rating_for_order(a) == IF a.n = 0 THEN [sum |-> 0, n |-> 1] ELSE a

\* the fractions a > b and a = b
Greater(a, b) == a.sum * b.n > b.sum * a.n

Equal(a, b) == a.sum * b.n = b.sum * a.n

\* order_by('-avg_rating', '-review_count', '-created_at'): row i comes
\* before row j, ann being the rows' annotations
best_before(ann, i, j) ==
    LET a == rating_for_order(ann[i].avg_rating)
        b == rating_for_order(ann[j].avg_rating)
    IN \/ Greater(a, b)
       \/ Equal(a, b) /\ ann[i].review_count > ann[j].review_count
       \/ Equal(a, b) /\ ann[i].review_count = ann[j].review_count /\ i > j

\* the rows S with order_by('-created_at') alone
order_by_created(S) == Desc(S)

\* the element of a set of one element
The(S) == CHOOSE x \in S : TRUE

\* the rows S in the order of best_before: each row at the place given by
\* the number of rows before it
sorted_best(S, ann) ==
    The({[k \in 1..Cardinality(S) |-> CHOOSE x \in S : rank[x] = k - 1] :
            rank \in {[x \in S |-> Cardinality({y \in S : best_before(ann, y, x)})]}})

\* the annotated rows S with order_by('-avg_rating', '-review_count',
\* '-created_at')
order_by_best(S) == The({sorted_best(S, ann) : ann \in {[i \in S |-> annotate(i)]}})

\* latest_products, best_sellers and newly_coming
browse_cats_view ==
    LET ordered == Desc(Product_is_approved)
        latest_products == Slice(ordered, 0, 12)
        newly_coming == Slice(ordered, 12, 20)
    IN /\ \E best_sellers \in {Slice(order_by_best(Product_is_approved), 0, 8)} :
             shown' = [Response("browse", "ok",
                          Range(latest_products) \cup Range(best_sellers)
                              \cup Range(newly_coming),
                          {}, {})
                        EXCEPT !.best_sellers = best_sellers]
       /\ ReadOnly

\* the try block around the two price filters: a bound that does not parse
\* ends the block, the filters applied before it stay
price_filter(qs, min_price, max_price) ==
    LET lo == Decimal(min_price)
        hi == Decimal(max_price)
        qs1 == IF min_price # "" /\ lo.ok
               THEN {i \in qs : products[i].price >= lo.value} ELSE qs
    IN IF min_price # "" /\ ~lo.ok THEN qs
       ELSE IF max_price # "" /\ hi.ok
       THEN {i \in qs1 : products[i].price <= hi.value}
       ELSE qs1

filter_products(q) ==
    LET qs0 == Product_is_approved
        qs1 == IF strip(q.name) # ""
               THEN {i \in qs0 : icontains(products[i].name, strip(q.name))} ELSE qs0
        qs2 == IF q.breed # {}
               THEN {i \in qs1 : BreedTable[products[i].breed].name \in q.breed}
                    \cup {i \in qs1 : products[i].breed \in q.breed}
               ELSE qs1
        qs3 == price_filter(qs2, q.min, q.max)
        qs4 == IF q.gender # {}
               THEN {i \in qs3 : products[i].gender \in {upper(g) : g \in q.gender}}
               ELSE qs3
        qs5 == IF q.color # {} THEN {i \in qs4 : products[i].color \in q.color} ELSE qs4
    IN Range(Slice(Desc(qs5), 0, 24))

filter_products_view(q) ==
    /\ IF \E b \in q.breed : ~is_uuid(b)
       THEN \* breed__id__in with a value that is no UUID raises ValidationError
            Shown("filter", "ValidationError", {}, {}, {})
       ELSE Shown("filter", "ok", filter_products(q), {}, {})
    /\ ReadOnly

shop_list_view ==
    /\ Shown("shop_list", "ok", {}, SellerShop_is_approved, {})
    /\ ReadOnly

shop_detail_view(shop_id) ==
    /\ IF shop_id \in SellerShop_is_approved
       THEN Shown("shop_detail", "ok",
                  {i \in Product_is_approved : products[i].shop = shop_id}, {shop_id}, {})
       ELSE Shown("shop_detail", "DoesNotExist", {}, {}, {})
    /\ ReadOnly

product_detail_view(product_id) ==
    /\ IF product_id \in Product_is_approved
       THEN Shown("product_detail", "ok", {product_id}, {}, {})
       ELSE Shown("product_detail", "DoesNotExist", {}, {}, {})
    /\ ReadOnly

\* cart.get(key, 0)
cart_get(cart, key) ==
    IF \E k \in DOMAIN cart : cart[k].key = key
    THEN cart[CHOOSE k \in DOMAIN cart : cart[k].key = key].qty
    ELSE 0

\* a cart that keeps the new entry only
cart_set_only(cart, key, qty) == <<[key |-> key, qty |-> qty]>>

\* cart[key] = qty
cart_set(cart, key, qty) ==
    IF \E k \in DOMAIN cart : cart[k].key = key
    THEN [k \in DOMAIN cart |-> IF cart[k].key = key THEN [key |-> key, qty |-> qty] ELSE cart[k]]
    ELSE Append(cart, [key |-> key, qty |-> qty])

RECURSIVE cart_total(_)
cart_total(cart) ==
    IF cart = <<>> THEN 0 ELSE Head(cart).qty + cart_total(Tail(cart))

add_to_cart_view(s, product_id, qty) ==
    LET quantity == int(qty)
        cart == sessions[s].cart
    IN /\ IF product_id \notin Product_is_approved
          THEN /\ Shown("add_to_cart", "DoesNotExist", {}, {}, {})
               /\ UNCHANGED sessions
          ELSE IF ~quantity.ok
          THEN /\ Shown("add_to_cart", "ValueError", {}, {}, {})
               /\ UNCHANGED sessions
          ELSE /\ sessions' = [sessions EXCEPT ![s].cart =
                      cart_set(cart, product_id,
                               cart_get(cart, product_id) + Max(quantity.value, 1))]
               /\ Shown("add_to_cart", "added", {product_id}, {}, {})
       /\ UNCHANGED <<shops, products, mates>>
       /\ UNCHANGED <<users, otps, now, last, req, extVars>>

\* discounted_price with the product rounded down to the price's two places
discounted_price_quantized(p) ==
    IF p.discount_percentage > 0
    THEN (((p.price \div 100) * (100 - p.discount_percentage)) \div 100) * 100
    ELSE p.price

\* Product.discounted_price: Decimal('1') - Decimal(d) / Decimal('100') is
\* exact, 100 - d hundredths; the product of the price (p.price \div 100
\* hundredths) and this factor is exact with four places, the unit 1/10000
discounted_price(p) ==
    IF p.discount_percentage > 0
    THEN (p.price \div 100) * (100 - p.discount_percentage)
    ELSE p.price

\* the dictionary cart_view appends for product i
cart_item(cart, i) ==
    LET p == products[i]
        qty == cart_get(cart, i)
        price == IF p.discount_percentage > 0 THEN discounted_price(p) ELSE p.price
    IN [product |-> i, qty |-> qty, price |-> price, line_total |-> price * qty]

\* total += line_total over the items
RECURSIVE cart_sum(_)
cart_sum(items) ==
    IF items = <<>> THEN 0 ELSE Head(items).line_total + cart_sum(Tail(items))

\* Product.objects.filter(id__in=product_ids): no approval filter, the rows
\* in Meta.ordering
cart_view(s) ==
    /\ \E ids \in {{i \in Product_all : cart_get(sessions[s].cart, i) > 0}} :
       \E items \in {[k \in 1..Cardinality(ids) |-> cart_item(sessions[s].cart, Desc(ids)[k])]} :
          shown' = [Response("cart", "ok", ids, {}, {})
                       EXCEPT !.items = items, !.total = cart_sum(items)]
    /\ ReadOnly

\* a checkout that removes the first entry of the cart only
checkout_view_first(s, method) ==
    /\ sessions' = [sessions EXCEPT ![s].cart = IF @ = <<>> THEN @ ELSE Tail(@)]
    /\ Shown("checkout", "placed", {}, {}, {})
    /\ UNCHANGED <<shops, products, mates>>
    /\ UNCHANGED <<users, otps, now, last, req, extVars>>

\* POST: request.session.pop('cart', None); any other method renders the
\* checkout page
checkout_view(s, method) ==
    /\ IF method = "POST"
       THEN /\ sessions' = [sessions EXCEPT ![s].cart = <<>>]
            /\ Shown("checkout", "placed", {}, {}, {})
       ELSE /\ UNCHANGED sessions
            /\ Shown("checkout", "form", {}, {}, {})
    /\ UNCHANGED <<shops, products, mates>>
    /\ UNCHANGED <<users, otps, now, last, req, extVars>>

mate_list_view ==
    /\ Shown("mate_list", "ok", {}, {}, Mate_is_approved)
    /\ ReadOnly

mate_detail_view(mate_id) ==
    /\ IF mate_id \in Mate_is_approved
       THEN Shown("mate_detail", "ok", {}, {}, {mate_id})
       ELSE Shown("mate_detail", "Http404", {}, {}, {})
    /\ ReadOnly

(***************************************************************************)
(* SpecCatalog: a verified seller logged in in browser session s1 and a     *)
(* normal user logged in in s2 (the state reached when the seller has      *)
(* registered and verified and the normal user has registered and logged   *)
(* in), the admin, and the buyer-facing views.                             *)
(***************************************************************************)
\* request.POST and request.FILES: images is the number of image files,
\* videos the names of the video files, categories the ids selected
Tom ==
    [name |-> "Tom", breed |-> "b1", gender |-> "MALE", color |-> "white",
     price |-> "80", date_of_birth |-> "2024-01-31", discount_percentage |-> "0",
     description |-> "calm", images |-> 1, videos |-> <<>>, categories |-> {}]

Kitty ==
    [name |-> "Kitty", breed |-> "b2", gender |-> "FEMALE", color |-> "black",
     price |-> "120", date_of_birth |-> "2024-01-31", discount_percentage |-> "2",
     description |-> "shy", images |-> 4,
     videos |-> <<"cat.exe", "cat.mp4", "big.mp4">>, categories |-> {"c1", "c2"}]

\* two well-formed submissions, Tom's with one field spoiled at a time, with
\* no breed chosen, and with three fields spoiled
ProductForms ==
    {Tom, Kitty,
     [Tom EXCEPT !.name = " "], [Tom EXCEPT !.breed = "b9"],
     [Tom EXCEPT !.breed = "Persian"], [Tom EXCEPT !.price = "-1"],
     [Tom EXCEPT !.price = "abc"], [Tom EXCEPT !.date_of_birth = "2024-02-31"],
     [Tom EXCEPT !.discount_percentage = "101"], [Tom EXCEPT !.description = ""],
     [Tom EXCEPT !.breed = ""],
     [Tom EXCEPT !.name = " ", !.price = "abc", !.description = ""]}

\* every combination of the five filters (name, breed, price range, gender,
\* colour) being set or not, one bound of the price range alone, and values
\* that do not parse or name a breed
FilterQueries ==
    [name : {"", "om"}, breed : {{}, {"b1"}}, min : {""}, max : {""},
     gender : {{}, {"male"}}, color : {{}, {"white"}}]
    \cup
    [name : {"", "om"}, breed : {{}, {"b1"}}, min : {"80"}, max : {"100"},
     gender : {{}, {"male"}}, color : {{}, {"white"}}]
    \cup
    [name : {""}, breed : {{}}, min : {"", "100"}, max : {"", "100"},
     gender : {{}}, color : {{}}]
    \cup
    [name : {"kit"}, breed : {{"Persian"}, {"b2", "b9"}}, min : {"", "abc"},
     max : {"120"}, gender : {{"female", "MALE"}}, color : {{}}]

ShopIds == 1..2
ProductIds == 1..MaxProducts
MateIds == 1..MaxMates
Quantities == {"0", "1", "x"}
CartSessions == {"s2"}

InitCatalog ==
    /\ users = <<[create_user("a@x.io", "pw1", "SELLER") EXCEPT !.is_verified = TRUE],
                 [create_user("b@X.IO", "pw1", "NORMAL") EXCEPT !.is_verified = TRUE]>>
    /\ otps = <<[new_otp(1, "a@x.io", "111111", 0) EXCEPT !.is_used = TRUE]>>
    /\ sessions = [s \in Sessions |->
                      [EmptySession EXCEPT !.user = IF s = "s1" THEN 1 ELSE 2]]
    /\ now = 0
    /\ last = [view |-> "login", session |-> "s2", email |-> "b@x.io",
              code |-> None, status |-> "logged_in"]
    /\ req = [w \in Workers |-> IdleRequest]
    /\ InitCatalogEmpty

CreateShop == \E s \in Sessions, n \in ShopNames : create_shop_view(s, n)

UpdateShop == \E s \in Sessions, n \in ShopNames : update_shop_view(s, n)

AddProduct ==
    /\ Len(products) < MaxProducts
    /\ \E s \in Sessions, f \in ProductForms : add_product_view(s, f)

AdminSaveShop == \E i \in 1..Len(shops), v \in BOOLEAN : admin_save_shop(i, v)

AdminSaveProduct == \E i \in 1..Len(products), v \in BOOLEAN : admin_save_product(i, v)

AdminAddMate ==
    /\ Len(mates) < MaxMates
    /\ \E i \in 1..Len(shops), v \in BOOLEAN : admin_add_mate(i, v, NoTime)

\* the admin changes is_approved and leaves the field approved_at as it is shown
AdminChangeMate ==
    \E i \in 1..Len(mates), v \in BOOLEAN : admin_change_mate(i, v, mates[i].approved_at)

Browse == browse_cats_view

Filter == \E q \in FilterQueries : filter_products_view(q)

ShopList == shop_list_view

ShopDetail == \E i \in ShopIds : shop_detail_view(i)

ProductDetail == \E i \in ProductIds : product_detail_view(i)

AddToCart ==
    \E s \in CartSessions, i \in ProductIds, q \in Quantities :
        /\ cart_total(sessions[s].cart) + Max(int(q).value, 1) <= MaxCartQty
        /\ add_to_cart_view(s, i, q)

Cart == \E s \in CartSessions : cart_view(s)

Methods == {"GET", "POST"}

Checkout == \E s \in CartSessions, m \in Methods : checkout_view(s, m)

MateList == mate_list_view

MateDetail == \E i \in MateIds : mate_detail_view(i)

NextCatalog ==
    \/ CreateShop
    \/ UpdateShop
    \/ AddProduct
    \/ AdminSaveShop
    \/ AdminSaveProduct
    \/ AdminAddMate
    \/ AdminChangeMate
    \/ Browse
    \/ Filter
    \/ ShopList
    \/ ShopDetail
    \/ ProductDetail
    \/ AddToCart
    \/ Cart
    \/ Checkout
    \/ MateList
    \/ MateDetail

SpecCatalog == InitCatalog /\ [][NextCatalog]_vars

(***************************************************************************)
(* SpecShop: create-shop split at its INSERT, two requests at a time;      *)
(* update-shop; the admin approving shops and changing the role of the     *)
(* second user; the second browser session logging out.                    *)
(***************************************************************************)
\* request.POST.get('shop_name') of create-shop: a name, or no such field
ShopNameInputs == {"Cat House", None}

\* request.POST.get('shop_name') of update-shop
NewShopNames == {"Cat Home"}

\* the users whose role the admin changes
RoleChanged == {2}

\* create_shop_view behind its decorators, lines 139-158: the decorators run
\* and the form is read
create_shop_start(w, s, shop_name) ==
    LET sd == sessions[s]
        refused == IF seller_required(sd) # None THEN seller_required(sd)
                   ELSE no_shop_required(sd)
        r == [IdleRequest EXCEPT
                 !.view = "create_shop", !.session = s, !.sd = sd,
                 !.uid = sd.user, !.shop_name = shop_name]
    IN /\ Accepting(w)
       /\ req' = [req EXCEPT ![w] =
                     IF refused # None
                     THEN [r EXCEPT !.pc = "done", !.status = refused]
                     ELSE [r EXCEPT !.pc = "s_insert"]]
       /\ UNCHANGED authVars
       /\ UNCHANGED catVars

\* the INSERT into a table whose column seller_id is not UNIQUE
create_shop_insert_not_unique(w) ==
    LET r == req[w]
    IN /\ r.pc = "s_insert"
       /\ IF r.shop_name = None
          THEN /\ UNCHANGED shops
               /\ Finish(w, "IntegrityError")
          ELSE /\ shops' = Append(shops,
                      [seller |-> r.uid, shop_name |-> r.shop_name,
                       is_approved |-> FALSE, approved_at |-> NoTime])
               /\ Finish(w, "created")
       /\ UNCHANGED authVars
       /\ UNCHANGED <<products, mates, shown, extVars>>

\* create_shop_view, lines 160-174: SellerShop.objects.create. The column
\* seller_id of the OneToOneField is UNIQUE, shop_name is NOT NULL
create_shop_insert(w) ==
    LET r == req[w]
    IN /\ r.pc = "s_insert"
       /\ IF seller_shop(r.uid) # NoId \/ r.shop_name = None
          THEN /\ UNCHANGED shops
               /\ Finish(w, "IntegrityError")
          ELSE /\ shops' = Append(shops,
                      [seller |-> r.uid, shop_name |-> r.shop_name,
                       is_approved |-> FALSE, approved_at |-> NoTime])
               /\ Finish(w, "created")
       /\ UNCHANGED authVars
       /\ UNCHANGED <<products, mates, shown, extVars>>

\* core/admin.py UserAdmin: the change form saves the field role
admin_save_user(i, role) ==
    /\ users' = [users EXCEPT ![i].role = role]
    /\ UNCHANGED <<otps, sessions, now, last, req>>
    /\ UNCHANGED catVars

CreateShopStart ==
    \E w \in Workers, s \in Sessions, n \in ShopNameInputs : create_shop_start(w, s, n)

CreateShopInsert == \E w \in Workers : create_shop_insert(w)

UpdateShopName == \E s \in Sessions, n \in NewShopNames : update_shop_view(s, n)

AdminSaveUser == \E i \in RoleChanged, r \in {"SELLER", "NORMAL"} : admin_save_user(i, r)

ShopLogout == \E s \in CartSessions : logout_view(s)

NextShop ==
    \/ CreateShopStart
    \/ CreateShopInsert
    \/ UpdateShopName
    \/ AdminSaveShop
    \/ AdminSaveUser
    \/ ShopLogout

SpecShop == InitCatalog /\ [][NextShop]_vars

(***************************************************************************)
(* SpecReviews: the catalogue after the seller has submitted eight         *)
(* products and the admin has approved the shop and each of them; one more *)
(* submission, the admin's edits of products and of product reviews, and   *)
(* the browse and filter pages.                                            *)
(***************************************************************************)
MaxListed == 9      \* rows the products table may hold in SpecReviews
MaxReviews == 3     \* rows the product_reviews table may hold

\* the products the admin approves or rejects, and those that are reviewed
Moderated == {1, MaxListed}
Reviewed == {1, 2}
Ratings == {2, 5}

InitReviews ==
    /\ users = <<[create_user("a@x.io", "pw1", "SELLER") EXCEPT !.is_verified = TRUE],
                 [create_user("b@X.IO", "pw1", "NORMAL") EXCEPT !.is_verified = TRUE]>>
    /\ otps = <<[new_otp(1, "a@x.io", "111111", 0) EXCEPT !.is_used = TRUE]>>
    /\ sessions = [s \in Sessions |->
                      [EmptySession EXCEPT !.user = IF s = "s1" THEN 1 ELSE 2]]
    /\ now = 0
    /\ last = [view |-> "login", session |-> "s2", email |-> "b@x.io",
              code |-> None, status |-> "logged_in"]
    /\ req = [w \in Workers |-> IdleRequest]
    /\ shops = <<[seller |-> 1, shop_name |-> "Cat House",
                  is_approved |-> TRUE, approved_at |-> NoTime]>>
    /\ products = [k \in 1..(MaxListed - 1) |-> [new_product(1, Tom) EXCEPT !.is_approved = TRUE]]
    /\ mates = <<>>
    /\ shown = Response("admin_shop", "saved", {}, {}, {})
    /\ logs = <<>>
    /\ reviews = <<>>
    /\ images = [k \in 1..(MaxListed - 1) |-> [product |-> k, is_primary |-> TRUE]]
    /\ videos = <<>>
    /\ pcats = <<>>
    /\ mate_images = <<>>

ReviewsAddProduct ==
    /\ Len(products) < MaxListed
    /\ add_product_view("s1", Tom)

ReviewsSaveProduct ==
    \E i \in Moderated \cap (1..Len(products)), v \in BOOLEAN : admin_save_product(i, v)

AdminAddReview ==
    /\ Len(reviews) < MaxReviews
    /\ \E p \in Reviewed, u \in 1..Len(users), r \in Ratings, v \in BOOLEAN :
          admin_add_review(p, u, r, v)

AdminChangeReview ==
    \E k \in 1..Len(reviews), r \in Ratings, v \in BOOLEAN : admin_change_review(k, r, v)

AdminDeleteReview == \E k \in 1..Len(reviews) : admin_delete_review(k)

ReviewsFilter ==
    filter_products_view([name |-> "", breed |-> {}, min |-> "", max |-> "",
                          gender |-> {}, color |-> {}])

NextReviews ==
    \/ ReviewsAddProduct
    \/ ReviewsSaveProduct
    \/ AdminAddReview
    \/ AdminChangeReview
    \/ AdminDeleteReview
    \/ Browse
    \/ ReviewsFilter

SpecReviews == InitReviews /\ [][NextReviews]_vars

(***************************************************************************)
(* SpecPrice: the seller's shop is approved and holds one approved         *)
(* product; the seller lists a second one at any price and discount of the *)
(* form, the admin approves it, and the buyer fills and views the cart.    *)
(***************************************************************************)
PriceInputs == {"0", "0.01", "0.99", "100.00", "120", "-1"}
DiscountInputs == {ToString(d) : d \in 0..MaxInt}
PriceQuantities == {"1", "2"}

InitPrice ==
    /\ users = <<[create_user("a@x.io", "pw1", "SELLER") EXCEPT !.is_verified = TRUE],
                 [create_user("b@X.IO", "pw1", "NORMAL") EXCEPT !.is_verified = TRUE]>>
    /\ otps = <<[new_otp(1, "a@x.io", "111111", 0) EXCEPT !.is_used = TRUE]>>
    /\ sessions = [s \in Sessions |->
                      [EmptySession EXCEPT !.user = IF s = "s1" THEN 1 ELSE 2]]
    /\ now = 0
    /\ last = [view |-> "login", session |-> "s2", email |-> "b@x.io",
              code |-> None, status |-> "logged_in"]
    /\ req = [w \in Workers |-> IdleRequest]
    /\ shops = <<[seller |-> 1, shop_name |-> "Cat House",
                  is_approved |-> TRUE, approved_at |-> NoTime]>>
    /\ products = <<[new_product(1, Tom) EXCEPT !.is_approved = TRUE]>>
    /\ mates = <<>>
    /\ shown = Response("admin_product", "saved", {}, {}, {})
    /\ logs = <<>>
    /\ reviews = <<>>
    /\ images = <<[product |-> 1, is_primary |-> TRUE]>>
    /\ videos = <<>>
    /\ pcats = <<>>
    /\ mate_images = <<>>

PriceAddProduct ==
    /\ Len(products) < MaxProducts
    /\ \E price \in PriceInputs, d \in DiscountInputs :
          add_product_view("s1", [Tom EXCEPT !.price = price, !.discount_percentage = d])

PriceSaveProduct ==
    /\ Len(products) = MaxProducts
    /\ \E v \in BOOLEAN : admin_save_product(MaxProducts, v)

PriceAddToCart ==
    \E s \in CartSessions, i \in ProductIds, q \in PriceQuantities :
        /\ cart_total(sessions[s].cart) + Max(int(q).value, 1) <= MaxCartQty
        /\ add_to_cart_view(s, i, q)

NextPrice ==
    \/ PriceAddProduct
    \/ PriceSaveProduct
    \/ PriceAddToCart
    \/ Cart

SpecPrice == InitPrice /\ [][NextPrice]_vars

(***************************************************************************)
(* SpecCart: two approved products, one of them discounted; both browser   *)
(* sessions add to their carts, view them and check out, and the admin     *)
(* withdraws and restores the approval of the second product.              *)
(***************************************************************************)
MaxQty == 5         \* total quantity the carts of SpecCart may hold
CartQuantities == {"0", "-1", "2", "3", "x"}
CartProductIds == 1..(MaxProducts + 1)

Discounted == [Tom EXCEPT !.price = "100.00", !.discount_percentage = "25"]

InitCart ==
    /\ users = <<[create_user("a@x.io", "pw1", "SELLER") EXCEPT !.is_verified = TRUE],
                 [create_user("b@X.IO", "pw1", "NORMAL") EXCEPT !.is_verified = TRUE]>>
    /\ otps = <<[new_otp(1, "a@x.io", "111111", 0) EXCEPT !.is_used = TRUE]>>
    /\ sessions = [s \in Sessions |->
                      [EmptySession EXCEPT !.user = IF s = "s1" THEN 1 ELSE 2]]
    /\ now = 0
    /\ last = [view |-> "login", session |-> "s2", email |-> "b@x.io",
              code |-> None, status |-> "logged_in"]
    /\ req = [w \in Workers |-> IdleRequest]
    /\ shops = <<[seller |-> 1, shop_name |-> "Cat House",
                  is_approved |-> TRUE, approved_at |-> NoTime]>>
    /\ products = <<[new_product(1, Tom) EXCEPT !.is_approved = TRUE],
                    [new_product(1, Discounted) EXCEPT !.is_approved = TRUE]>>
    /\ mates = <<>>
    /\ shown = Response("admin_product", "saved", {}, {}, {})
    /\ logs = <<>>
    /\ reviews = <<>>
    /\ images = <<[product |-> 1, is_primary |-> TRUE], [product |-> 2, is_primary |-> TRUE]>>
    /\ videos = <<>>
    /\ pcats = <<>>
    /\ mate_images = <<>>

\* the quantity all carts hold
RECURSIVE carts_total(_)
carts_total(SS) ==
    IF SS = {} THEN 0
    ELSE LET s == CHOOSE x \in SS : TRUE
         IN cart_total(sessions[s].cart) + carts_total(SS \ {s})

CartAdd ==
    \E s \in Sessions, i \in CartProductIds, q \in CartQuantities :
        /\ carts_total(Sessions) + Max(int(q).value, 1) <= MaxQty
        /\ add_to_cart_view(s, i, q)

CartShow == \E s \in Sessions : cart_view(s)

CartCheckout == \E s \in Sessions, m \in Methods : checkout_view(s, m)

CartSaveProduct == \E v \in BOOLEAN : admin_save_product(MaxProducts, v)

NextCart ==
    \/ CartAdd
    \/ CartShow
    \/ CartCheckout
    \/ CartSaveProduct

SpecCart == InitCart /\ [][NextCart]_vars

(***************************************************************************)
(* SpecImages: two products with the image each was submitted with and a   *)
(* mate; the admin adds and edits product images and mate images, one save *)
(* after the other.                                                        *)
(***************************************************************************)
MaxImages == 3      \* rows the product_images table may hold
MaxMateImages == 6  \* rows the mate_images table may hold
ImageListings == {1, 2}
ImageMates == {1}

InitImages ==
    /\ users = <<[create_user("a@x.io", "pw1", "SELLER") EXCEPT !.is_verified = TRUE],
                 [create_user("b@X.IO", "pw1", "NORMAL") EXCEPT !.is_verified = TRUE]>>
    /\ otps = <<[new_otp(1, "a@x.io", "111111", 0) EXCEPT !.is_used = TRUE]>>
    /\ sessions = [s \in Sessions |->
                      [EmptySession EXCEPT !.user = IF s = "s1" THEN 1 ELSE 2]]
    /\ now = 0
    /\ last = [view |-> "login", session |-> "s2", email |-> "b@x.io",
              code |-> None, status |-> "logged_in"]
    /\ req = [w \in Workers |-> IdleRequest]
    /\ shops = <<[seller |-> 1, shop_name |-> "Cat House",
                  is_approved |-> FALSE, approved_at |-> NoTime]>>
    /\ products = <<new_product(1, Tom), new_product(1, Tom)>>
    /\ mates = [m \in ImageMates |->
                  save_model([shop |-> 1, is_approved |-> FALSE, approved_at |-> NoTime])]
    /\ shown = Response("admin_mate", "saved", {}, {}, {})
    /\ logs = <<>>
    /\ reviews = <<>>
    /\ images = <<[product |-> 1, is_primary |-> TRUE], [product |-> 2, is_primary |-> TRUE]>>
    /\ videos = <<>>
    /\ pcats = <<>>
    /\ mate_images = <<>>

AdminAddImage ==
    /\ Len(images) < MaxImages
    /\ \E p \in ImageListings, v \in BOOLEAN : admin_add_image(p, v)

AdminChangeImage ==
    \E k \in 1..Len(images), p \in ImageListings, v \in BOOLEAN : admin_change_image(k, p, v)

AdminAddMateImage ==
    /\ Len(mate_images) < MaxMateImages
    /\ \E m \in ImageMates, v \in BOOLEAN : admin_add_mate_image(m, v)

AdminChangeMateImage ==
    \E k \in 1..Len(mate_images), m \in ImageMates, v \in BOOLEAN :
        admin_change_mate_image(k, m, v)

NextImages ==
    \/ AdminAddImage
    \/ AdminChangeImage
    \/ AdminAddMateImage
    \/ AdminChangeMateImage

SpecImages == InitImages /\ [][NextImages]_vars

(***************************************************************************)
(* SpecImagesConc: the state of SpecImages; two requests save new images,  *)
(* each save split at its two database statements, the UPDATE that clears  *)
(* the listing's primary images and the INSERT of the row.                 *)
(***************************************************************************)
MaxConcImages == 4  \* rows either image table may hold in SpecImagesConc

\* ProductImage.save, line 178-179: a primary image clears the primaries of
\* its product
product_image_clear(w, product, is_primary) ==
    /\ Accepting(w)
    /\ req' = [req EXCEPT ![w] =
                  [IdleRequest EXCEPT !.view = "product_image", !.pc = "i_insert",
                                      !.listing = product, !.is_primary = is_primary]]
    /\ images' = [j \in DOMAIN images |->
                     IF is_primary /\ images[j].product = product
                     THEN [images[j] EXCEPT !.is_primary = FALSE] ELSE images[j]]
    /\ UNCHANGED authVars
    /\ UNCHANGED <<shops, products, mates, shown>>
    /\ UNCHANGED <<logs, reviews, videos, pcats, mate_images>>

\* ProductImage.save, line 180: super().save() inserts the row
product_image_insert(w) ==
    /\ req[w].pc = "i_insert" /\ req[w].view = "product_image"
    /\ images' = Append(images, [product |-> req[w].listing,
                                  is_primary |-> req[w].is_primary])
    /\ Finish(w, "saved")
    /\ UNCHANGED authVars
    /\ UNCHANGED <<shops, products, mates, shown>>
    /\ UNCHANGED <<logs, reviews, videos, pcats, mate_images>>

\* MateImage.save, lines 360-361
mate_image_clear(w, mate, is_primary) ==
    /\ Accepting(w)
    /\ req' = [req EXCEPT ![w] =
                  [IdleRequest EXCEPT !.view = "mate_image", !.pc = "i_insert",
                                      !.listing = mate, !.is_primary = is_primary]]
    /\ mate_images' = [j \in DOMAIN mate_images |->
                          IF is_primary /\ mate_images[j].mate = mate
                          THEN [mate_images[j] EXCEPT !.is_primary = FALSE]
                          ELSE mate_images[j]]
    /\ UNCHANGED authVars
    /\ UNCHANGED <<shops, products, mates, shown>>
    /\ UNCHANGED <<logs, reviews, images, videos, pcats>>

\* MateImage.save, lines 364-369: the instance has its primary key, the
\* count is not checked, super().save() inserts the row
mate_image_insert(w) ==
    /\ req[w].pc = "i_insert" /\ req[w].view = "mate_image"
    /\ mate_images' = Append(mate_images, [mate |-> req[w].listing,
                                            is_primary |-> req[w].is_primary])
    /\ Finish(w, "saved")
    /\ UNCHANGED authVars
    /\ UNCHANGED <<shops, products, mates, shown>>
    /\ UNCHANGED <<logs, reviews, images, videos, pcats>>

\* the rows stored and the rows requests in flight are about to insert
ImageRows(view, rows) ==
    Len(rows) + Cardinality({w \in Workers : req[w].pc = "i_insert" /\ req[w].view = view})

ProductImageClear ==
    /\ ImageRows("product_image", images) < MaxConcImages
    /\ \E w \in Workers, p \in ImageListings, v \in BOOLEAN : product_image_clear(w, p, v)

ProductImageInsert == \E w \in Workers : product_image_insert(w)

MateImageClear ==
    /\ ImageRows("mate_image", mate_images) < MaxConcImages
    /\ \E w \in Workers, m \in ImageMates, v \in BOOLEAN : mate_image_clear(w, m, v)

MateImageInsert == \E w \in Workers : mate_image_insert(w)

NextImagesConc ==
    \/ ProductImageClear
    \/ ProductImageInsert
    \/ MateImageClear
    \/ MateImageInsert

SpecImagesConc == InitImages /\ [][NextImagesConc]_vars

(***************************************************************************)
(* SpecAdmin: the seller of SpecCatalog after create-shop, the admin site  *)
(* (shops, products, mates and the approval log) and the clock.            *)
(***************************************************************************)
MaxLogs == 2        \* rows the admin_approval_logs table may hold

\* the superusers of the admin site
Admins == {"root@x.io"}

ContentTypes == {"sellershop", "product", "mate"}

\* what the admin can leave in the field approved_at of a mate: nothing, or
\* a time
FormTimes == {NoTime, 0}

\* the state of SpecCatalog after the seller's create-shop request
InitAdmin ==
    /\ users = <<[create_user("a@x.io", "pw1", "SELLER") EXCEPT !.is_verified = TRUE],
                 [create_user("b@X.IO", "pw1", "NORMAL") EXCEPT !.is_verified = TRUE]>>
    /\ otps = <<[new_otp(1, "a@x.io", "111111", 0) EXCEPT !.is_used = TRUE]>>
    /\ sessions = [s \in Sessions |->
                      [EmptySession EXCEPT !.user = IF s = "s1" THEN 1 ELSE 2]]
    /\ now = 0
    /\ last = [view |-> "login", session |-> "s2", email |-> "b@x.io",
              code |-> None, status |-> "logged_in"]
    /\ req = [w \in Workers |-> IdleRequest]
    /\ shops = <<[seller |-> 1, shop_name |-> "Cat House",
                  is_approved |-> FALSE, approved_at |-> NoTime]>>
    /\ products = <<>>
    /\ mates = <<>>
    /\ shown = Response("create_shop", "created", {}, {}, {})
    /\ logs = <<>>
    /\ reviews = <<>>
    /\ images = <<>>
    /\ videos = <<>>
    /\ pcats = <<>>
    /\ mate_images = <<>>

AdminAddProduct ==
    /\ Len(products) < MaxProducts
    /\ add_product_view("s1", Tom)

AdminAddMateForm ==
    /\ Len(mates) < MaxMates
    /\ \E i \in 1..Len(shops), v \in BOOLEAN, t \in FormTimes : admin_add_mate(i, v, t)

AdminChangeMateForm ==
    \E i \in 1..Len(mates), v \in BOOLEAN, t \in FormTimes : admin_change_mate(i, v, t)

AdminAddLog ==
    /\ Len(logs) < MaxLogs
    /\ \E c \in ContentTypes, a \in Admins, x \in ACTION_CHOICES : admin_add_log(c, 1, a, x)

AdminChangeLog == \E k \in 1..Len(logs), x \in ACTION_CHOICES : admin_change_log(k, x)

AdminDeleteLog == \E k \in 1..Len(logs) : admin_delete_log(k)

NextAdmin ==
    \/ Tick
    \/ AdminAddProduct
    \/ AdminSaveShop
    \/ AdminSaveProduct
    \/ AdminAddMateForm
    \/ AdminChangeMateForm
    \/ AdminAddLog
    \/ AdminChangeLog
    \/ AdminDeleteLog

SpecAdmin == InitAdmin /\ [][NextAdmin]_vars

(***************************************************************************)
(* Properties of registration, verification and login.                     *)
(***************************************************************************)
\* the records a submitted code may consume at this moment: same code,
\* not used, not expired
ValidOtps(code) ==
    {i \in 1..Len(otps) :
        otps[i].otp_code = code /\ ~otps[i].is_used /\ now < otps[i].expires_at}

DbUnchanged == UNCHANGED <<users, otps, sessions>>

\* C1: between a seller's registration and the first successful verifyOtp
\* for that user a login with the right e-mail and password fails, so no
\* session is ever authenticated as a user whose is_verified is false.
C1_NoSessionOfUnverifiedUser ==
    \A s \in Sessions :
        sessions[s].user # NoId => users[sessions[s].user].is_verified

\* C2: for every OTPVerification, a verifyOtp (from a session
\* with the marker) with its code while it is unused and unexpired sets
\* is_used and the user's is_verified, every later call with that code ends
\* in the invalid-OTP response, and is_used never goes back to false.
C2_EveryLaterCallFails ==
    [][\A i \in 1..Len(otps) :
        /\ otps[i].is_used => otps'[i].is_used
        /\ (/\ last'.view = "verify_otp"
            /\ sessions[last'.session].registration_email # None
            /\ last'.code = otps[i].otp_code) =>
               IF ~otps[i].is_used /\ now < otps[i].expires_at
               THEN /\ last'.status = "verified"
                    /\ otps'[i].is_used
                    /\ users'[otps[i].user].is_verified
               ELSE otps[i].is_used => last'.status = "invalid_otp"
      ]_vars

\* C3: of two verifyOtp requests that run concurrently with the same valid
\* code, at most one consumes the OTPVerification and is logged in: no two
\* requests both end in the verified response for the same record.
C3_AtMostOneVerifySucceeds ==
    \A v, w \in Workers :
        (/\ v # w
         /\ req[v].view = "verify_otp" /\ req[v].status = "verified"
         /\ req[w].view = "verify_otp" /\ req[w].status = "verified")
        => req[v].otp # req[w].otp

\* C8: when register requests for one email run concurrently, each having
\* found the email free at its existence check, one user with that email
\* exists afterwards and the request that loses ends in a validation
\* error, never in the storage's IntegrityError.
C8_LoserGetsValidationError ==
    /\ \A i, j \in 1..Len(users) : users[i].email = users[j].email => i = j
    /\ \A w \in Workers :
          (req[w].view = "register" /\ req[w].pc = "done" /\ req[w].free)
          => req[w].status \in ValidationErrors \cup {"otp_sent", "registered"}

\* C4: a successful register with role SELLER stores exactly one new user,
\* unverified, and exactly one new OTPVerification for that user: unused,
\* purpose REGISTRATION, expiring 10 minutes after its creation; and the
\* session's registration_email becomes the e-mail of the form.
C4_SellerRegistration ==
    [][(last'.view = "register" /\ last'.status \in {"otp_sent", "registered"}) =>
        \A f \in RegisterForms :
            (f.role = "SELLER" /\ f.email = last'.email /\ Submit(last'.session, f)) =>
                /\ last'.status = "otp_sent"
                /\ Len(users') = Len(users) + 1
                /\ SubSeq(users', 1, Len(users)) = users
                /\ users'[Len(users')].email = normalize_email(f.email)
                /\ users'[Len(users')].role = "SELLER"
                /\ users'[Len(users')].is_verified = FALSE
                /\ Len(otps') = Len(otps) + 1
                /\ SubSeq(otps', 1, Len(otps)) = otps
                /\ otps'[Len(otps')].user = Len(users')
                /\ otps'[Len(otps')].otp_code = f.otp_code
                /\ otps'[Len(otps')].is_used = FALSE
                /\ otps'[Len(otps')].verification_type = "REGISTRATION"
                /\ otps'[Len(otps')].created_at = now
                /\ otps'[Len(otps')].expires_at = otps'[Len(otps')].created_at + 10
                /\ sessions'[last'.session].registration_email = f.email
      ]_vars

\* a seller has just registered: one user, one OTP, the marker in the session
C4_Witness ==
    /\ last.view = "register" /\ last.status = "otp_sent"
    /\ Len(users) = 1 /\ users[1].role = "SELLER" /\ ~users[1].is_verified
    /\ Len(otps) = 1 /\ otps[1].user = 1 /\ ~otps[1].is_used
    /\ sessions[last.session].registration_email = last.email

\* C5: a verifyOtp whose code matches no unused, unexpired record (a wrong
\* code, a used one, or a right one after expires_at) ends in the
\* invalid-OTP response and changes nothing: no record is marked used, no
\* user verified, no session authenticated, the marker stays.
C5_InvalidOtpChangesNothing ==
    [][(/\ last'.view = "verify_otp"
        /\ sessions[last'.session].registration_email # None
        /\ ValidOtps(last'.code) = {}) =>
            /\ last'.status = "invalid_otp"
            /\ DbUnchanged
      ]_vars

\* the code of an unused record was submitted at or after its expires_at
C5_Witness ==
    /\ last.view = "verify_otp" /\ last.status = "invalid_otp"
    /\ sessions[last.session].registration_email # None
    /\ \E i \in 1..Len(otps) :
           /\ otps[i].otp_code = last.code
           /\ ~otps[i].is_used
           /\ otps[i].expires_at <= now
           /\ ~users[otps[i].user].is_verified

\* C6: a verifyOtp from a session without the marker is turned away to the
\* registration page before any lookup, whatever the code: nothing is
\* consumed, nobody verified, no session authenticated.
C6_NoMarkerNoLookup ==
    [][(/\ last'.view = "verify_otp"
        /\ sessions[last'.session].registration_email = None) =>
            /\ last'.status = "redirect_register"
            /\ DbUnchanged
      ]_vars

\* a code that a lookup would have accepted was submitted without the marker
C6_Witness ==
    /\ last.view = "verify_otp" /\ last.status = "redirect_register"
    /\ sessions[last.session].registration_email = None
    /\ ValidOtps(last.code) # {}

\* C7: a register whose passwords differ, whose e-mail is that of a stored
\* user (as typed, or in the form create_user stores it), or whose phone is
\* empty or only blanks, does not succeed and stores no user, no
\* OTPVerification and no marker; and a register that ends in a validation
\* error leaves the stored users as they were.
C7_RejectedRegisterStoresNothing ==
    [][last'.view = "register" =>
        /\ last'.status \in ValidationErrors => DbUnchanged
        /\ \/ last'.status \notin {"otp_sent", "registered"} /\ DbUnchanged
           \/ \A f \in RegisterForms :
                 ~ /\ \/ f.password1 # f.password2
                      \/ /\ f.email # None
                         /\ \E u \in 1..Len(users) :
                                users[u].email \in {f.email, normalize_email(f.email)}
                      \/ f.phone \in {"", " "}
                   /\ f.email = last'.email
                   /\ Submit(last'.session, f)
      ]_vars

\* a form with a blank phone was turned away while a user is stored
C7_Witness ==
    /\ last.view = "register" /\ last.status = "phone_required"
    /\ Len(users) > 0

(***************************************************************************)
(* Properties of the catalogue.                                            *)
(***************************************************************************)
\* the operations C9 lists that return products or mates
ListingViews ==
    {"browse", "filter", "shop_detail", "product_detail", "add_to_cart",
     "mate_list", "mate_detail"}

\* two stored products that every filter treats alike
SameListing(i, j) ==
    /\ products[i].name = products[j].name
    /\ products[i].breed = products[j].breed
    /\ products[i].price = products[j].price
    /\ products[i].gender = products[j].gender
    /\ products[i].color = products[j].color

\* C9: no product and no mate with is_approved = false is in the response
\* of browse, filter (whatever the name, breed, price, gender and colour
\* parameters), shop detail, product detail, add-to-cart, mate list or mate
\* detail; a product stored by a seller's submission has is_approved =
\* false, and a product's is_approved becomes true only in an admin's save.
C9_UnapprovedNeverReturned ==
    [][/\ shown'.view \in ListingViews =>
             /\ \A r \in shown'.products : r.is_approved /\ products'[r.id].is_approved
             /\ \A r \in shown'.mates : r.is_approved /\ mates'[r.id].is_approved
       /\ \A i \in 1..Len(products') :
             i > Len(products) =>
                 shown'.view = "add_product" /\ ~products'[i].is_approved
       /\ \A i \in 1..Len(products) :
             (~products[i].is_approved /\ products'[i].is_approved) =>
                 shown'.view = "admin_product"
      ]_vars

\* a filter returned an approved product and left out an unapproved one
\* that was stored before it and has the same name, breed, price, gender
\* and colour
C9_Witness ==
    /\ shown.view = "filter"
    /\ \E r \in shown.products :
          \E i \in 1..(r.id - 1) :
              /\ SameListing(i, r.id)
              /\ ~products[i].is_approved
              /\ \A x \in shown.products : x.id # i

\* C10: no product whose shop has is_approved = false is in the response
\* of browse, filter, product detail or add-to-cart, and no shop with
\* is_approved = false is in the response of shop list or shop detail.
C10_UnapprovedShopHidden ==
    /\ shown.view \in {"browse", "filter", "product_detail", "add_to_cart"} =>
          \A r \in shown.products : r.shop_approved
    /\ shown.view \in {"shop_list", "shop_detail"} =>
          \A r \in shown.shops : r.is_approved

(***************************************************************************)
(* Properties of the admin site.                                           *)
(***************************************************************************)
\* the step approves or rejects the row i of a table: the admin saved it and
\* its is_approved differs from what it was, or the row is new and approved
Approves(view, old, new, i) ==
    /\ shown'.view = view
    /\ i \in 1..Len(new)
    /\ IF i \in 1..Len(old) THEN new[i].is_approved # old[i].is_approved
       ELSE new[i].is_approved = TRUE

ApprovalOf(c, i) ==
    CASE c = "sellershop" -> Approves("admin_shop", shops, shops', i)
      [] c = "product" -> Approves("admin_product", products, products', i)
      [] c = "mate" -> Approves("admin_mate", mates, mates', i)

IsApprovedAfter(c, i) ==
    CASE c = "sellershop" -> shops'[i].is_approved
      [] c = "product" -> products'[i].is_approved
      [] c = "mate" -> mates'[i].is_approved

\* C11: every step in which the admin approves or rejects a shop, a product
\* or a mate appends exactly one row to the approval log, naming the row
\* acted upon, an admin and the kind of action; every other step leaves the
\* log as it is, so the log has one row for each such action and no row of
\* it is changed or removed.
C11_EveryApprovalLogged ==
    [][IF \E c \in ContentTypes, i \in 1..(MaxProducts + 1) : ApprovalOf(c, i)
       THEN \E c \in ContentTypes, i \in 1..(MaxProducts + 1) :
               /\ ApprovalOf(c, i)
               /\ Len(logs') = Len(logs) + 1
               /\ SubSeq(logs', 1, Len(logs)) = logs
               /\ logs'[Len(logs')].content_type = c
               /\ logs'[Len(logs')].object_id = i
               /\ logs'[Len(logs')].admin_user \in Admins
               /\ logs'[Len(logs')].action =
                      (IF IsApprovedAfter(c, i) THEN "APPROVED" ELSE "REJECTED")
       ELSE logs' = logs]_vars

\* C12: a shop with is_approved = TRUE has an approved_at.
C12_ApprovedShopHasTimestamp ==
    \A i \in 1..Len(shops) : shops[i].is_approved => shops[i].approved_at # NoTime

\* what the admin's save of a mate with the form fields is_approved = v and
\* approved_at = t leaves in the row m
MateSaved(m, v, t) ==
    /\ m.is_approved = v
    /\ m.approved_at # NoTime <=> m.is_approved
    /\ v /\ t = NoTime => m.approved_at = now
    /\ v /\ t # NoTime => m.approved_at = t
    /\ ~v => m.approved_at = NoTime

\* C13: after the admin's save of a mate, through the add form or the change
\* form, approved_at is set exactly when is_approved is: approved with no
\* timestamp takes the current time, approved with a timestamp keeps it,
\* unapproved has none.
C13_MateApprovedAt ==
    [][/\ \A i \in 1..Len(mates), v \in BOOLEAN, t \in FormTimes :
            admin_change_mate(i, v, t) => MateSaved(mates'[i], v, t)
       /\ \A i \in 1..Len(shops), v \in BOOLEAN, t \in FormTimes :
            admin_add_mate(i, v, t) => MateSaved(mates'[Len(mates')], v, t)]_vars

\* a mate approved with no timestamp in the form was stamped with a clock
\* that had advanced
C13_Witness ==
    /\ shown.view = "admin_mate"
    /\ now > 0
    /\ \E i \in 1..Len(mates) : mates[i].is_approved /\ mates[i].approved_at = now

(***************************************************************************)
(* Properties of the shop views.                                           *)
(***************************************************************************)
OneShopPerSeller ==
    \A i, j \in 1..Len(shops) : shops[i].seller = shops[j].seller => i = j

\* worker w takes up a create-shop request in this step
CreateShopTaken(w) ==
    /\ Accepting(w)
    /\ req'[w] # req[w]
    /\ req'[w].view = "create_shop"

\* the request worker w took up ends at once, in status, and stores nothing
Refused(w, status) ==
    /\ req'[w].pc = "done"
    /\ req'[w].status = status
    /\ shops' = shops

\* C14: no seller owns two shops, whatever the interleaving of create-shop
\* requests; a create-shop request of an anonymous session, of a user who
\* is no seller, or of a seller who has a shop is redirected (to login, to
\* home, to update-shop) and stores nothing; the INSERT of a request whose
\* seller got a shop in the meantime stores nothing; a step that stores a
\* shop stores one shop, of the requesting seller, with is_approved = FALSE.
C14_OneShopPerSeller ==
    [][/\ OneShopPerSeller'
       /\ \A w \in Workers : CreateShopTaken(w) =>
             LET uid == sessions[req'[w].session].user
             IN /\ uid = NoId => Refused(w, "redirect_login")
                /\ uid # NoId /\ users[uid].role # "SELLER" => Refused(w, "redirect_home")
                /\ uid # NoId /\ users[uid].role = "SELLER" /\ seller_shop(uid) # NoId
                      => Refused(w, "redirect_update_shop")
       /\ \A w \in Workers : req[w].pc = "s_insert" /\ req'[w].pc = "done" =>
             IF seller_shop(req[w].uid) # NoId
             THEN shops' = shops /\ req'[w].status = "IntegrityError"
             ELSE req'[w].status = "created" <=> shops' # shops
       /\ Len(shops') # Len(shops) =>
             /\ \E w \in Workers : req[w].pc = "s_insert" /\ req'[w].status = "created"
                                    /\ shops'[Len(shops')].seller = req[w].uid
             /\ Len(shops') = Len(shops) + 1
             /\ SubSeq(shops', 1, Len(shops)) = shops
             /\ shops'[Len(shops')].is_approved = FALSE]_vars

\* two create-shop requests of one seller both passed the decorators; one
\* stored the shop and the other's INSERT was refused
C14_Witness ==
    /\ req[1].status = "created"
    /\ req[2].status = "IntegrityError"
    /\ req[2].shop_name # None
    /\ req[1].uid = req[2].uid
    /\ \E i \in 1..Len(shops) : shops[i].seller = req[1].uid

\* C15: update-shop keeps the number of shops and every shop's is_approved,
\* approved_at and seller, and changes no shop but the requesting seller's.
C15_UpdateKeepsApproval ==
    [][\A s \in Sessions, n \in NewShopNames : update_shop_view(s, n) =>
          /\ Len(shops') = Len(shops)
          /\ \A i \in 1..Len(shops) :
                /\ shops'[i].is_approved = shops[i].is_approved
                /\ shops'[i].approved_at = shops[i].approved_at
                /\ shops'[i].seller = shops[i].seller
                /\ shops[i].seller # sessions[s].user => shops'[i] = shops[i]]_vars

\* an approved shop and a pending shop, of two sellers, have both been
\* renamed by update-shop
C15_Witness ==
    /\ shown.view = "update_shop"
    /\ shown.status = "updated"
    /\ Len(shops) = 2
    /\ \E i, j \in 1..Len(shops) :
          /\ shops[i].is_approved /\ shops[i].shop_name \in NewShopNames
          /\ ~shops[j].is_approved /\ shops[j].shop_name \in NewShopNames

(***************************************************************************)
(* Properties of product submission.                                       *)
(***************************************************************************)
\* the submission of form f from session s reaches the view's checks
Submits(s, f) ==
    /\ add_product_view(s, f)
    /\ seller_required(sessions[s]) = None
    /\ has_shop_required(sessions[s]) = None

\* the checks of a submission that form f fails
FailingChecks(f) ==
    {c \in {"name", "breed", "date_of_birth", "price", "discount", "description"} :
        \/ c = "name" /\ strip(f.name) = ""
        \/ c = "breed" /\ f.breed \notin DOMAIN BreedTable
        \/ c = "date_of_birth" /\ ~strptime_ok(f.date_of_birth)
        \/ c = "price" /\ (~Decimal(f.price).ok \/ Decimal(f.price).value < 0)
        \/ c = "discount" /\ \/ ~int(f.discount_percentage).ok
                              \/ int(f.discount_percentage).value \notin 0..100
        \/ c = "description" /\ strip(f.description) = ""}

\* C16: a submission that fails a check stores no product, image, video or
\* category row, and its response lists one message for each failing check.
C16_AllErrorsReported ==
    [][\A s \in Sessions, f \in ProductForms :
          Submits(s, f) /\ FailingChecks(f) # {} =>
             /\ UNCHANGED <<products, images, videos, pcats, mate_images>>
             /\ Range(shown'.errors) = FailingChecks(f)
             /\ Len(shown'.errors) = Cardinality(FailingChecks(f))]_vars

\* C17: a submission naming a breed that is not active is answered with the
\* breed error and stores no product; the breed of every product a
\* submission stores is active.
C17_InactiveBreedRejected ==
    [][\A s \in Sessions, f \in ProductForms :
          Submits(s, f) =>
             /\ f.breed \in DOMAIN BreedTable /\ ~BreedTable[f.breed].is_active =>
                   /\ products' = products
                   /\ \E k \in DOMAIN shown'.errors : shown'.errors[k] = "breed"
             /\ Len(products') > Len(products) =>
                   BreedTable[products'[Len(products')].breed].is_active]_vars

(***************************************************************************)
(* Properties of ratings and of the best-sellers list.                     *)
(***************************************************************************)
\* two averages are the same: both NULL, or the same fraction
SameRating(a, b) ==
    \/ a.n = 0 /\ b.n = 0
    \/ a.n > 0 /\ b.n > 0 /\ Equal(a, b)

\* the step adds, changes or removes a review that is not approved (and is
\* not approved afterwards)
UnapprovedReviewStep ==
    /\ shown'.view = "admin_review"
    /\ reviews' # reviews
    /\ \/ /\ Len(reviews') = Len(reviews) + 1
          /\ ~reviews'[Len(reviews')].is_approved
       \/ /\ Len(reviews') = Len(reviews)
          /\ \A k \in 1..Len(reviews) :
                reviews'[k] # reviews[k] => ~reviews[k].is_approved /\ ~reviews'[k].is_approved
       \/ /\ Len(reviews') = Len(reviews) - 1
          /\ \E k \in 1..Len(reviews) :
                /\ ~reviews[k].is_approved
                /\ reviews' = SubSeq(reviews, 1, k - 1) \o SubSeq(reviews, k + 1, Len(reviews))

\* C18: the avg_rating and review_count of every product that browse and
\* filter return are the average and the number of the product's approved
\* reviews; a step that adds, changes or removes an unapproved review
\* changes no product's rating or count and not the best-sellers order.
C18_RatingsOverApprovedReviews ==
    [][/\ shown'.view \in {"browse", "filter"} /\ shown'.status = "ok" =>
             \A p \in shown'.products :
                /\ p.review_count = Count(approved_reviews(p.id))'
                /\ SameRating(p.avg_rating, Avg(approved_reviews(p.id))')
       /\ UnapprovedReviewStep =>
             /\ \A i \in 1..Len(products) : annotate(i)' = annotate(i)
             /\ order_by_best(Product_is_approved)' = order_by_best(Product_is_approved)]_vars

\* the rating a returned row p is ranked by: 0 with no review
RankRating(p) == IF p.review_count = 0 THEN [sum |-> 0, n |-> 1] ELSE p.avg_rating

\* the returned row p may stand before the row q among the best sellers
InOrder(p, q) ==
    \/ Greater(RankRating(p), RankRating(q))
    \/ Equal(RankRating(p), RankRating(q)) /\ p.review_count > q.review_count
    \/ /\ Equal(RankRating(p), RankRating(q))
       /\ p.review_count = q.review_count
       /\ p.id > q.id

CartShown(s) == cart_view(s)

\* C20: the effective price of every stored product (a price in hundredths,
\* a discount d in 0..100) is exactly price * (100 - d) / 100, equal to the
\* price when d = 0, never negative and never above the price; and each line
\* of a cart page carries that value as its unit price, its line total the
\* unit price times the quantity, the page total the sum of the lines.
C20_EffectivePriceExact ==
    [][/\ \A i \in 1..Len(products') :
            \E p \in {products'[i]} : \E e \in {discounted_price(p)} :
               /\ p.discount_percentage \in 0..100
               /\ e * 100 = p.price * (100 - p.discount_percentage)
               /\ p.discount_percentage = 0 => e = p.price
               /\ 0 <= e /\ e <= p.price
       /\ \A s \in CartSessions : CartShown(s) =>
            /\ {shown'.items[k].product : k \in DOMAIN shown'.items}
                  = {i \in 1..Len(products) : cart_get(sessions[s].cart, i) > 0}
            /\ \A k \in DOMAIN shown'.items :
                  \E it \in {shown'.items[k]} :
                     /\ it.price = discounted_price(products[it.product])
                     /\ it.price * 100 = products[it.product].price
                                          * (100 - products[it.product].discount_percentage)
                     /\ it.qty = cart_get(sessions[s].cart, it.product)
                     /\ it.line_total = it.price * it.qty]_vars

\* a cart page with a line for a product listed at 100.00 with 25 percent
\* off, at the unit price 75.00, and a line for one listed at 0.01 with a
\* discount whose effective price has four decimal places
C20_Witness ==
    /\ shown.view = "cart"
    /\ \E k \in DOMAIN shown.items :
          /\ products[shown.items[k].product].price = 1000000
          /\ products[shown.items[k].product].discount_percentage = 25
          /\ shown.items[k].price = 750000
    /\ Len(shown.items) = 2


\* sum over the entries of a cart of quantity times effective price
RECURSIVE EntriesTotal(_)
EntriesTotal(cart) ==
    IF cart = <<>> THEN 0
    ELSE Head(cart).qty * discounted_price(products[Head(cart).key])
         + EntriesTotal(Tail(cart))

\* the quantity a call with the parameter qty adds
AddedQty(q) == IF int(q).value < 1 THEN 1 ELSE int(q).value

\* C21: an addToCart call for an approved listing L with a numeric qty
\* raises the stored quantity of L by qty, by exactly 1 when qty is below
\* 1, and changes no other entry and no other cart (so from the empty cart
\* the stored quantity is the sum of the quantities added); an addToCart or
\* cart-view step lowers no quantity; and the grand total of a cart page is
\* the sum over the cart's entries of quantity times effective price.
C21_CartQuantitiesAndTotal ==
    [][/\ \A s \in Sessions, i \in CartProductIds, q \in CartQuantities :
            add_to_cart_view(s, i, q) =>
               /\ (i \in Product_is_approved /\ int(q).ok) =>
                     /\ shown'.status = "added"
                     /\ cart_get(sessions'[s].cart, i)
                           = cart_get(sessions[s].cart, i) + AddedQty(q)
               /\ \A j \in CartProductIds \ {i} :
                     cart_get(sessions'[s].cart, j) = cart_get(sessions[s].cart, j)
               /\ \A j \in CartProductIds :
                     cart_get(sessions'[s].cart, j) >= cart_get(sessions[s].cart, j)
               /\ \A o \in Sessions \ {s} : sessions'[o] = sessions[o]
       /\ \A s \in Sessions :
            cart_view(s) =>
               /\ sessions' = sessions
               /\ shown'.total = EntriesTotal(sessions[s].cart)
               /\ Len(shown'.items) = Len(sessions[s].cart)]_vars

\* a cart page of a cart holding 5 of the discounted listing (2 and 3
\* added), its grand total 5 times 75.00
C21_Witness ==
    /\ shown.view = "cart"
    /\ \E s \in Sessions :
          /\ sessions[s].cart = <<[key |-> 2, qty |-> 5]>>
          /\ shown.items = <<[product |-> 2, qty |-> 5, price |-> 750000,
                              line_total |-> 3750000]>>
    /\ shown.total = 3750000


\* C22: a checkout call (POST) leaves the session's cart empty whatever it
\* held, the empty cart included; it stores no row in any table, and changes
\* no product, no user, no other field of the session and no other session.
C22_CheckoutEmptiesCart ==
    [][\A s \in Sessions :
          checkout_view(s, "POST") =>
             /\ sessions'[s].cart = <<>>
             /\ sessions'[s] = [sessions[s] EXCEPT !.cart = <<>>]
             /\ \A o \in Sessions \ {s} : sessions'[o] = sessions[o]
             /\ <<users, otps, shops, products, mates>>'
                   = <<users, otps, shops, products, mates>>
             /\ <<logs, reviews, images, videos, pcats, mate_images>>'
                   = <<logs, reviews, images, videos, pcats, mate_images>>]_vars

\* an order was just placed from one session while the other session's cart
\* still holds two entries
C22_Witness ==
    /\ shown.view = "checkout" /\ shown.status = "placed"
    /\ \E s \in Sessions :
          /\ sessions[s].cart = <<>>
          /\ \E o \in Sessions \ {s} : Len(sessions[o].cart) = 2


\* the primary images of a listing
PrimaryImages(p) == {k \in DOMAIN images : images[k].product = p /\ images[k].is_primary}
PrimaryMateImages(m) ==
    {k \in DOMAIN mate_images : mate_images[k].mate = m /\ mate_images[k].is_primary}

\* a product or a mate has at most one primary image
AtMostOnePrimary ==
    /\ \A p \in ImageListings : Cardinality(PrimaryImages(p)) <= 1
    /\ \A m \in ImageMates : Cardinality(PrimaryMateImages(m)) <= 1

\* C23: after every image save, one after the other, each product and each
\* mate has at most one primary image; right after an image is saved with
\* is_primary = true it is the only primary image of its listing; and the
\* images of the other listings are as they were.
C23_OnePrimaryImage ==
    [][/\ AtMostOnePrimary'
       /\ \A p \in ImageListings, v \in BOOLEAN :
            admin_add_image(p, v) =>
               /\ v => PrimaryImages(p)' = {Len(images')}
               /\ \A j \in DOMAIN images : images[j].product # p => images'[j] = images[j]
       /\ \A k \in DOMAIN images, p \in ImageListings, v \in BOOLEAN :
            admin_change_image(k, p, v) =>
               /\ v => PrimaryImages(p)' = {k}
               /\ \A j \in DOMAIN images \ {k} :
                     images[j].product # p => images'[j] = images[j]
       /\ \A m \in ImageMates, v \in BOOLEAN :
            admin_add_mate_image(m, v) =>
               /\ v => PrimaryMateImages(m)' = {Len(mate_images')}
               /\ \A j \in DOMAIN mate_images :
                     mate_images[j].mate # m => mate_images'[j] = mate_images[j]
       /\ \A k \in DOMAIN mate_images, m \in ImageMates, v \in BOOLEAN :
            admin_change_mate_image(k, m, v) =>
               /\ v => PrimaryMateImages(m)' = {k}
               /\ \A j \in DOMAIN mate_images \ {k} :
                     mate_images[j].mate # m => mate_images'[j] = mate_images[j]]_vars

\* product 1 has its first image and a third one saved as primary after it,
\* product 2 keeps its own primary image, and the mate's second image was
\* saved as primary after its first
C23_Witness ==
    /\ images = <<[product |-> 1, is_primary |-> FALSE],
                  [product |-> 2, is_primary |-> TRUE],
                  [product |-> 1, is_primary |-> TRUE]>>
    /\ mate_images = <<[mate |-> 1, is_primary |-> FALSE], [mate |-> 1, is_primary |-> TRUE]>>

\* C30: a mate never has more than 5 images (a save of a new image for a
\* mate that has 5 is rejected and stores nothing).
C30_MateImageLimit ==
    \A m \in ImageMates :
        Cardinality({k \in DOMAIN mate_images : mate_images[k].mate = m}) <= MateImageLimit


\* C24: when no image save is in flight, every listing has at most one
\* primary image, whatever the interleaving of the saves was (two saves of
\* primary images of one listing end with exactly one primary image).
C24_ConcurrentSavesOnePrimary ==
    (\A w \in Workers : req[w].pc # "i_insert") => AtMostOnePrimary


\* C25: when the mail dispatch of a SELLER registration fails, the user and
\* the OTPVerification the request created stay stored, the request ends in
\* an error and not in a success response, and the session is left as it
\* was, without the pending-verification marker of this registration.
C25_MailFailureKeepsRows ==
    [][last'.view = "register" =>
        \A f \in RegisterForms :
          (/\ f.role = "SELLER" /\ ~f.mail_ok /\ f.email = last'.email
           /\ register_rejects(f.email, f.phone, f.password1, f.password2) = None
           /\ ~create_user_IntegrityError(f.email, f.role)
           /\ Submit(last'.session, f)) =>
             /\ Len(users') = Len(users) + 1
             /\ SubSeq(users', 1, Len(users)) = users
             /\ users'[Len(users')].email = normalize_email(f.email)
             /\ Len(otps') = Len(otps) + 1
             /\ SubSeq(otps', 1, Len(otps)) = otps
             /\ otps'[Len(otps')].user = Len(users')
             /\ otps'[Len(otps')].otp_code = f.otp_code
             /\ last'.status = "SMTPException"
             /\ last'.status \in UnhandledErrors
             /\ sessions' = sessions]_vars

\* a seller registration whose mail failed: the user and the code are
\* stored, the session has no marker
C25_Witness ==
    /\ last.view = "register" /\ last.status = "SMTPException"
    /\ Len(users) = 1 /\ users[1].role = "SELLER"
    /\ Len(otps) = 1 /\ otps[1].user = 1
    /\ sessions[last.session].registration_email = None


\* C26: a successful register with role NORMAL stores exactly one new user,
\* verified, stores no OTPVerification and sets no marker, and right after
\* it a login with the e-mail and the password of the form authenticates
\* that user.
C26_NormalRegistration ==
    [][(last'.view = "register" /\ last'.status = "registered") =>
        \A f \in RegisterForms :
          (f.role = "NORMAL" /\ f.email = last'.email /\ Submit(last'.session, f)) =>
             /\ Len(users') = Len(users) + 1
             /\ SubSeq(users', 1, Len(users)) = users
             /\ users'[Len(users')].is_verified = TRUE
             /\ otps' = otps
             /\ sessions' = sessions
             /\ authenticate(f.email, f.password1)' = Len(users')]_vars

\* the record a verify-otp step has just consumed
Consumed == {i \in DOMAIN otps : ~otps[i].is_used /\ otps'[i].is_used}

\* C27: a verifyOtp from a session consumes only an OTPVerification issued
\* to the e-mail of the session's marker, verifies only that record's user
\* and logs the session in as that user only: a session that registered
\* seller A and submits the code of seller B changes nothing of B.
C27_VerifyOnlyMarkerUser ==
    [][last'.view = "verify_otp" =>
        /\ \A i \in Consumed :
              otps[i].email = sessions[last'.session].registration_email
        /\ \A u \in DOMAIN users :
              (~users[u].is_verified /\ users'[u].is_verified) =>
                 \E i \in Consumed :
                    /\ otps[i].user = u
                    /\ otps[i].email = sessions[last'.session].registration_email
        /\ \A s \in Sessions :
              (sessions'[s].user # sessions[s].user /\ sessions'[s].user # NoId) =>
                 \E i \in Consumed :
                    /\ otps[i].user = sessions'[s].user
                    /\ otps[i].email = sessions[s].registration_email]_vars

\* C28: a verifyOtp from a session with the marker ends in success or in
\* the invalid-OTP response, never in an unhandled error; when the code
\* matches unused, unexpired records (of two sellers too) it consumes
\* exactly one of them.
C28_VerifyEndsHandled ==
    [][(last'.view = "verify_otp" /\ otp_session_required(sessions[last'.session])) =>
        /\ last'.status \in {"verified", "invalid_otp"}
        /\ otp_lookup(last'.code, now) # {} => Cardinality(Consumed) = 1]_vars

\* C29: every stored user has role NORMAL or SELLER (a register whose role
\* is missing or any other string stores no user).
C29_RoleIsNormalOrSeller ==
    \A u \in DOMAIN users : users[u].role \in {"NORMAL", "SELLER"}

====
